---------------------------- MODULE Spec2Model ----------------------------
(***************************************************************************)
(* A model of brainfuck-core: the packed code buffer (data.rs), the        *)
(* single-pass jump-table builder (util.rs), the interpreter (run.rs) and  *)
(* the search driver find_program (search.rs).                             *)
(*                                                                         *)
(* Indices are 0-based in the source and 1-based in TLA+ sequences: the    *)
(* source's v[i] is written v[i + 1] here.                                 *)
(***************************************************************************)
EXTENDS Integers, Sequences, FiniteSets, TLC

VARIABLES
    \* run.rs: one call of the interpreter
    target_output,      \* the target bytes
    program_fragment,   \* the seed being run
    ipc,                \* where the call stands: "idle", "call", "loop", "tcall", "ret", "panic"
    tape, tape_head, pc, output_ind, steps,   \* the locals of the call
    run_res,            \* the BfRunResult the call returned
    emitted,            \* history: the cell values the call's Output instructions accepted
    MAX_STEPS_REACHED,  \* run.rs:220, the static AtomicUsize
    GLOBAL,             \* run.rs:62-65, the static table of visited-state scratch
    \* search.rs: one call of find_program
    starting_program,   \* the argument: a string, as a sequence of characters
    fpc,                \* where the call stands
    starting_code,      \* the parsed starting program (a CompressedBF)
    current_program_size,
    paren_count,
    jump_table,
    current_program_writing_head,   \* the DiskSeedWriter
    dir,                \* the working directory: file name -> content
    find_res,           \* what find_program returned
    \* a caller of the public functions: where it stands and what it holds
    caller

interp_vars == <<target_output, program_fragment, ipc, tape, tape_head, pc, output_ind,
                 steps, run_res, emitted, MAX_STEPS_REACHED, GLOBAL>>

search_vars == <<starting_program, fpc, starting_code, current_program_size, paren_count,
                 jump_table, current_program_writing_head, dir, find_res>>

vars == <<interp_vars, search_vars, caller>>

(***************************************************************************)
(* Program constants.                                                      *)
(***************************************************************************)
\* lib.rs:1  pub const MAX_TAPE_SIZE: usize = 4;
MAX_TAPE_SIZE == 4

\* u8 cells: wrapping_add / wrapping_sub work modulo 2^8.
U8_MOD == 256

\* run.rs:218 sets MAX_STEPS to 131066.  The model keeps the comparison
\* `steps > MAX_STEPS` and scales the number, so that the fallback to
\* run_program_fragment is reached after a few instructions.
MAX_STEPS == 12

(***************************************************************************)
(* Bounds of the model.                                                    *)
(***************************************************************************)
\* longest code of a seed handed to the interpreter
MaxCodeLen == 3

\* longest starting program handed to find_program
MaxStartLen == 2

\* the longest input handed to preprocess_input
MaxInputLen == 3

\* the longest input of preprocess_input on its own
MaxPreLen == 4

\* the longest packed code and the largest index handed to get and set
MaxPackLen == 3

\* the (size, capacity) arguments of new
NewArgs == {<<0, 0>>, <<0, 1>>, <<1, 3>>, <<2, 2>>, <<1, 0>>, <<2, 1>>}

MaxIndex == 4

\* the longest seed written to a frontier file and the longest list of seeds
MaxFrontierLen == 1

MaxSeeds == 2

\* targets handed to the interpreter
RunTargets == {<< >>, <<0>>, <<1>>, <<0, 0>>}

\* targets handed to find_program
SearchTargets == {<< >>, <<0>>, <<1>>, <<3>>}

\* values of the cell under the head in a resume state
ResumeCells == {0, 255}

\* head positions of a resume state: both ends of the tape
ResumeHeads == {0, MAX_TAPE_SIZE - 1}

(***************************************************************************)
(* data.rs: BfInstruction                                                  *)
(***************************************************************************)
\* the variants in ordinal order (Inc = 0, ..., Output = 7)
BfInstruction == <<"Inc", "Dec", "Left", "Right", "LoopStart", "LoopEnd", "Input", "Output">>

Instructions == {BfInstruction[k] : k \in 1..8}

\* Option::None
None == "None"

from_u8(n) == IF n \in 0..7 THEN BfInstruction[n + 1] ELSE None

to_u8(self) == CHOOSE n \in 0..7 : BfInstruction[n + 1] = self

\* the characters from_string and Display use
Symbols == <<"+", "-", "<", ">", "[", "]", ",", ".">>

\* data.rs:36-50: Display for BfInstruction, a one-character string
fmt_BfInstruction(self) ==
    CASE self = "Inc" -> "+"
      [] self = "Dec" -> "-"
      [] self = "Left" -> "<"
      [] self = "Right" -> ">"
      [] self = "LoopStart" -> "["
      [] self = "LoopEnd" -> "]"
      [] self = "Input" -> ","
      [] self = "Output" -> "."

(***************************************************************************)
(* data.rs: CompressedBF, a record [data, size]; data is the byte vector.  *)
(***************************************************************************)
div_ceil(a, b) == (a + b - 1) \div b

\* the value a panic leaves in place of a result
Panicked == [panic |-> TRUE]

CompressedBF_new(n, capacity) ==
    IF capacity < n
    THEN Panicked
    ELSE [data |-> [k \in 1..div_ceil(capacity, 2) |-> 0], size |-> n]

\* get with the index tested against the allocated nibbles
get_within_capacity(self, index) ==
    IF index >= 2 * Len(self.data)
    THEN None
    ELSE LET byte_pos == index \div 2
             is_high == index % 2 = 1
             byte == self.data[byte_pos + 1]
             value == IF is_high THEN (byte \div 16) % 16 ELSE byte % 16
         IN  from_u8(value)

get(self, index) ==
    IF index >= self.size
    THEN None
    ELSE LET byte_pos == index \div 2
             is_high == index % 2 = 1
             byte == self.data[byte_pos + 1]
             value == IF is_high THEN (byte \div 16) % 16 ELSE byte % 16
         IN  from_u8(value)

\* set storing the whole byte
set_whole_byte(self, index, value) ==
    IF index >= self.size
    THEN Panicked
    ELSE LET byte_pos == index \div 2
             is_high == index % 2 = 1
             val == to_u8(value) % 16
         IN  [self EXCEPT !.data[byte_pos + 1] = IF is_high THEN val * 16 ELSE val]

set(self, index, value) ==
    IF index >= self.size
    THEN Panicked
    ELSE LET byte_pos == index \div 2
             is_high == index % 2 = 1
             val == to_u8(value) % 16
             old == self.data[byte_pos + 1]
         IN  [self EXCEPT !.data[byte_pos + 1] =
                 IF is_high THEN (old % 16) + (val * 16)
                            ELSE ((old \div 16) * 16) + val]

size(self) == self.size

\* append writing into the low nibble of the last byte
append_low_nibble(self, value) ==
    LET required_bytes == div_ceil(self.size + 1, 2)
        grown == IF Len(self.data) < required_bytes
                 THEN self.data \o [k \in 1..(required_bytes - Len(self.data)) |-> 0]
                 ELSE self.data
    IN  set([data |-> grown, size |-> self.size + 1], (self.size \div 2) * 2, value)

append(self, value) ==
    LET required_bytes == div_ceil(self.size + 1, 2)
        grown == IF Len(self.data) < required_bytes
                 THEN self.data \o [k \in 1..(required_bytes - Len(self.data)) |-> 0]
                 ELSE self.data
    IN  set([data |-> grown, size |-> self.size + 1], self.size, value)

to_vec(self) == [k \in 1..self.size |-> get(self, k - 1)]

\* data.rs:160-178: Display for CompressedBF, the string as a sequence of characters
fmt_CompressedBF(self) ==
    [k \in 1..self.size |->
        LET got == get(self, k - 1)
        IN  CASE got = "Inc" -> "+"
              [] got = "Dec" -> "-"
              [] got = "Left" -> "<"
              [] got = "Right" -> ">"
              [] got = "LoopStart" -> "["
              [] got = "LoopEnd" -> "]"
              [] got = "Input" -> ","
              [] got = "Output" -> "."
              [] got = None -> "?"]

RECURSIVE from_string_from(_, _, _)
from_string_from(p0, k, bf) ==
    IF k > Len(p0)
    THEN bf
    ELSE LET hit == {n \in 1..8 : Symbols[n] = p0[k]}
         IN  IF hit = {}
             THEN from_string_from(p0, k + 1, bf)
             ELSE from_string_from(p0, k + 1, append(bf, BfInstruction[CHOOSE n \in hit : TRUE]))

from_string(p0) == from_string_from(p0, 1, CompressedBF_new(0, 0))

(***************************************************************************)
(* util.rs: the single pass that builds the jump table.                    *)
(***************************************************************************)
\* the first index holding -2 instead of the last
position_first(jt) ==
    LET hits == {k \in 1..Len(jt) : jt[k] = -2}
    IN  IF hits = {} THEN << >> ELSE <<(CHOOSE k \in hits : \A j \in hits : k <= j) - 1>>

\* Vec::iter().rposition(|x| x == -2): Some(the last index holding -2) as <<index>>,
\* None as << >>
rposition(jt) ==
    LET hits == {k \in 1..Len(jt) : jt[k] = -2}
    IN  IF hits = {} THEN << >> ELSE <<(CHOOSE k \in hits : \A j \in hits : j <= k) - 1>>

RECURSIVE jump_table_pass(_, _, _, _)
jump_table_pass(code, i, jt, current_paren_count) ==
    IF i >= size(code)
    THEN [err |-> None, jump_table |-> jt, current_paren_count |-> current_paren_count]
    ELSE LET instruction == get(code, i)
         IN  CASE instruction = "LoopStart" ->
                    jump_table_pass(code, i + 1, Append(jt, -2), current_paren_count + 1)
               [] instruction = "LoopEnd" ->
                    LET found == rposition(jt)
                        loop_start_index == found[1]
                    IN  IF found = << >>
                        THEN [err |-> "Loop end without matching loop start.",
                              jump_table |-> jt,
                              current_paren_count |-> current_paren_count]
                        ELSE jump_table_pass(code, i + 1,
                                 Append([jt EXCEPT ![loop_start_index + 1] = i + 1],
                                        loop_start_index + 1),
                                 current_paren_count - 1)
               [] OTHER ->
                    jump_table_pass(code, i + 1, Append(jt, -1), current_paren_count)

(***************************************************************************)
(* run.rs: results, machine state, seeds.                                  *)
(***************************************************************************)
ProgramState(t, h) == [tape |-> t, tape_head |-> h]

ContinueState(t, h, p, o) ==
    [program_state |-> ProgramState(t, h), resume_pc |-> p, resume_output_ind |-> o]

RunningProgramInfo(c, n, jt, cs) ==
    [code |-> c, current_paren_count |-> n, jump_table |-> jt, continue_state |-> cs]

NOOPError == [tag |-> "NOOPError"]
TargetMismatchError == [tag |-> "TargetMismatchError"]
TapeHeadBoundError == [tag |-> "TapeHeadBoundError"]
OOMError == [tag |-> "OOMError"]
InfiniteLoopError == [tag |-> "InfiniteLoopError"]
InputTokenError == [tag |-> "InputTokenError"]
IncompleteLoopSuccess(cs) == [tag |-> "IncompleteLoopSuccess", state |-> cs]
IncompleteOutputSuccess(cs) == [tag |-> "IncompleteOutputSuccess", state |-> cs]
Success == [tag |-> "Success"]

NoResult == [tag |-> "none"]

ZeroTape == [k \in 1..MAX_TAPE_SIZE |-> 0]

Max(a, b) == IF a >= b THEN a ELSE b


(***************************************************************************)
(* run.rs:62-82: get_state_tracker.                                        *)
(*                                                                         *)
(* GLOBAL maps a tape width to a Box<dyn Any>.  The box is created holding *)
(* a HashMap<ThreadId, Arc<Vec<..>>> (line 71) and is downcast to          *)
(* HashMap<ThreadId, Arc<Mutex<Vec<..>>>> (line 76).  downcast_mut         *)
(* compares the TypeId of the boxed value with the TypeId asked for and    *)
(* yields None when they differ; the unwrap() then panics while the guard  *)
(* of GLOBAL is held, which poisons the mutex.                             *)
(***************************************************************************)
BoxedType == "HashMap<ThreadId, Arc<Vec<HashSet<ProgramState>>>>"

DowncastType == "HashMap<ThreadId, Arc<Mutex<Vec<HashSet<ProgramState>>>>>"

EmptyGlobal == [poisoned |-> FALSE, map |-> << >>]

get_state_tracker(global, thread_id) ==
    IF global.poisoned
    THEN [ok |-> FALSE, global |-> global]                      \* GLOBAL.lock().unwrap()
    ELSE LET map1 == IF MAX_TAPE_SIZE \in DOMAIN global.map
                     THEN global.map
                     ELSE (MAX_TAPE_SIZE :> [type |-> BoxedType, threads |-> << >>]) @@ global.map
             entry == map1[MAX_TAPE_SIZE]
         IN  IF entry.type # DowncastType
             THEN [ok |-> FALSE, global |-> [poisoned |-> TRUE, map |-> map1]]   \* .unwrap() of None
             ELSE LET threads1 == IF thread_id \in DOMAIN entry.threads
                                  THEN entry.threads
                                  ELSE (thread_id :> << >>) @@ entry.threads
                  IN  [ok |-> TRUE,
                       global |-> [poisoned |-> FALSE,
                                   map |-> [map1 EXCEPT ![MAX_TAPE_SIZE].threads = threads1]],
                       state_tracker |-> threads1[thread_id]]

(***************************************************************************)
(* run.rs:222-344: run_program_fragment_without_states, one action per     *)
(* match arm.  An arm runs when the loop condition holds and the step      *)
(* counter, once incremented, does not exceed MAX_STEPS.                   *)
(***************************************************************************)
code_size == size(program_fragment.code)

cell == tape[tape_head + 1]

jump_entry == program_fragment.jump_table[pc + 1]

\* the loop is about to run the arm of `instruction`
Executes(instruction) ==
    /\ ipc = "loop"
    /\ pc < code_size
    /\ steps + 1 <= MAX_STEPS
    /\ get(program_fragment.code, pc) = instruction

\* the value a `return` leaves behind; fetch_max records the step count
Return(result, n) ==
    /\ ipc' = "ret"
    /\ run_res' = result
    /\ MAX_STEPS_REACHED' = Max(MAX_STEPS_REACHED, n)
    /\ steps' = n
    /\ UNCHANGED <<tape, tape_head, pc, output_ind, emitted>>

\* the arm falls out of the match: `pc += 1` and the next iteration
Continue(t, h, p, o, e) ==
    /\ ipc' = "loop"
    /\ tape' = t
    /\ tape_head' = h
    /\ pc' = p
    /\ output_ind' = o
    /\ emitted' = e
    /\ steps' = steps + 1
    /\ UNCHANGED <<run_res, MAX_STEPS_REACHED>>

\* a panic inside the call, after fetch_max has recorded the step count
Panic ==
    /\ ipc' = "panic"
    /\ steps' = steps + 1
    /\ MAX_STEPS_REACHED' = Max(MAX_STEPS_REACHED, steps + 1)
    /\ UNCHANGED <<tape, tape_head, pc, output_ind, emitted, run_res>>

Frame == UNCHANGED <<target_output, program_fragment, GLOBAL, search_vars, caller>>

Fast_Enter ==
    /\ ipc = "call"
    /\ ipc' = "loop"
    /\ steps' = 0
    /\ tape' = program_fragment.continue_state.program_state.tape
    /\ tape_head' = program_fragment.continue_state.program_state.tape_head
    /\ pc' = program_fragment.continue_state.resume_pc
    /\ output_ind' = program_fragment.continue_state.resume_output_ind
    /\ emitted' = << >>
    /\ UNCHANGED <<run_res, MAX_STEPS_REACHED>>
    /\ Frame

\* Inc that stays at 255
Inc_saturating ==
    /\ Executes("Inc")
    /\ Continue([tape EXCEPT ![tape_head + 1] = IF cell = U8_MOD - 1 THEN cell ELSE cell + 1],
                tape_head, pc + 1, output_ind, emitted)
    /\ Frame

Fast_Inc ==
    /\ Executes("Inc")
    /\ Continue([tape EXCEPT ![tape_head + 1] = (cell + 1) % U8_MOD],
                tape_head, pc + 1, output_ind, emitted)
    /\ Frame

Fast_Dec ==
    /\ Executes("Dec")
    /\ Continue([tape EXCEPT ![tape_head + 1] = (cell + U8_MOD - 1) % U8_MOD],
                tape_head, pc + 1, output_ind, emitted)
    /\ Frame

Fast_Left ==
    /\ Executes("Left")
    /\ IF tape_head = 0
       THEN Return(TapeHeadBoundError, steps + 1)
       ELSE Continue(tape, tape_head - 1, pc + 1, output_ind, emitted)
    /\ Frame

\* Right with the far edge reported as the near one
Right_same_error ==
    /\ Executes("Right")
    /\ IF tape_head + 1 = MAX_TAPE_SIZE
       THEN Return(TapeHeadBoundError, steps + 1)
       ELSE Continue(tape, tape_head + 1, pc + 1, output_ind, emitted)
    /\ Frame

Fast_Right ==
    /\ Executes("Right")
    /\ IF tape_head + 1 = MAX_TAPE_SIZE
       THEN Return(OOMError, steps + 1)
       ELSE Continue(tape, tape_head + 1, pc + 1, output_ind, emitted)
    /\ Frame

\* LoopStart entering an unclosed loop whatever the cell
LoopStart_enters_open_loop ==
    /\ Executes("LoopStart")
    /\ IF cell = 0
       THEN CASE jump_entry = -1 -> Panic
              [] jump_entry = -2 -> Continue(tape, tape_head, pc + 1, output_ind, emitted)
              [] OTHER -> Continue(tape, tape_head, jump_entry, output_ind, emitted)
       ELSE Continue(tape, tape_head, pc + 1, output_ind, emitted)
    /\ Frame

Fast_LoopStart ==
    /\ Executes("LoopStart")
    /\ IF cell = 0
       THEN CASE jump_entry = -1 -> Panic
              [] jump_entry = -2 -> Return(NOOPError, steps + 1)
              [] OTHER -> Continue(tape, tape_head, jump_entry, output_ind, emitted)
       ELSE Continue(tape, tape_head, pc + 1, output_ind, emitted)
    /\ Frame

\* LoopEnd jumping back onto its opener
LoopEnd_onto_opener ==
    /\ Executes("LoopEnd")
    /\ IF cell # 0
       THEN IF jump_entry = -1
            THEN Panic
            ELSE Continue(tape, tape_head, jump_entry - 1, output_ind, emitted)
       ELSE Continue(tape, tape_head, pc + 1, output_ind, emitted)
    /\ Frame

\* a LoopEnd's entry is its opener's index + 1, so the `as usize` cast at line
\* 295 never sees a negative number other than the -1 tested before it
Fast_LoopEnd ==
    /\ Executes("LoopEnd")
    /\ IF cell # 0
       THEN IF jump_entry = -1
            THEN Panic
            ELSE Continue(tape, tape_head, jump_entry, output_ind, emitted)
       ELSE Continue(tape, tape_head, pc + 1, output_ind, emitted)
    /\ Frame

\* Output that only counts the bytes
Output_unchecked ==
    /\ Executes("Output")
    /\ IF output_ind = Len(target_output)
       THEN Return(TargetMismatchError, steps + 1)
       ELSE Continue(tape, tape_head, pc + 1, output_ind + 1, Append(emitted, cell))
    /\ Frame

Fast_Output ==
    /\ Executes("Output")
    /\ IF output_ind = Len(target_output)
       THEN Return(TargetMismatchError, steps + 1)
       ELSE IF target_output[output_ind + 1] # cell
            THEN Return(TargetMismatchError, steps + 1)
            ELSE Continue(tape, tape_head, pc + 1, output_ind + 1, Append(emitted, cell))
    /\ Frame

Fast_Input ==
    /\ Executes("Input")
    /\ Return(InputTokenError, steps + 1)
    /\ Frame

\* the hand-over carrying on from the state reached at the cap
Fallback_from_cap_state ==
    /\ ipc = "loop"
    /\ pc < code_size
    /\ steps + 1 > MAX_STEPS
    /\ ipc' = "tcall"
    /\ steps' = steps + 1
    /\ program_fragment' = [program_fragment EXCEPT
                                !.continue_state = ContinueState(tape, tape_head, pc, output_ind)]
    /\ UNCHANGED <<tape, tape_head, pc, output_ind, emitted, run_res, MAX_STEPS_REACHED>>
    /\ UNCHANGED <<target_output, GLOBAL, search_vars, caller>>

\* lines 236-239: the cap is passed; the call hands over to run_program_fragment
Fast_Fallback ==
    /\ ipc = "loop"
    /\ pc < code_size
    /\ steps + 1 > MAX_STEPS
    /\ ipc' = "tcall"
    /\ steps' = steps + 1
    /\ UNCHANGED <<tape, tape_head, pc, output_ind, emitted, run_res, MAX_STEPS_REACHED>>
    /\ Frame

\* the exit looking at the output cursor before the open loops
Exit_output_first ==
    /\ ipc = "loop"
    /\ ~(pc < code_size)
    /\ LET resume == ContinueState(tape, tape_head, pc, output_ind)
       IN  IF output_ind # Len(target_output)
           THEN Return(IncompleteOutputSuccess(resume), steps)
           ELSE IF program_fragment.current_paren_count # 0
                THEN Return(IncompleteLoopSuccess(resume), steps)
                ELSE Return(Success, steps)
    /\ Frame

\* lines 318-343: the loop condition fails
Fast_Exit ==
    /\ ipc = "loop"
    /\ ~(pc < code_size)
    /\ LET resume == ContinueState(tape, tape_head, pc, output_ind)
       IN  IF program_fragment.current_paren_count # 0
           THEN Return(IncompleteLoopSuccess(resume), steps)
           ELSE IF output_ind # Len(target_output)
                THEN Return(IncompleteOutputSuccess(resume), steps)
                ELSE Return(Success, steps)
    /\ Frame

(***************************************************************************)
(* run.rs:86-91: run_program_fragment.  Its first statement asks           *)
(* get_state_tracker for the scratch of the calling thread.                *)
(***************************************************************************)
Track_Enter ==
    /\ ipc = "tcall"
    /\ LET r == get_state_tracker(GLOBAL, "main")
       IN  /\ GLOBAL' = r.global
           /\ ipc' = IF r.ok THEN "tloop" ELSE "panic"
    /\ UNCHANGED <<target_output, program_fragment, tape, tape_head, pc, output_ind,
                   steps, run_res, emitted, MAX_STEPS_REACHED, search_vars, caller>>

RECURSIVE SeqsUpTo(_, _)
SeqsUpTo(S, n) ==
    IF n = 0
    THEN {<< >>}
    ELSE LET shorter == SeqsUpTo(S, n - 1)
         IN  shorter \cup {Append(s, x) : s \in {q \in shorter : Len(q) = n - 1}, x \in S}

(***************************************************************************)
(* search.rs:308-412: DiskSeedWriter.  A file is the sequence of the words *)
(* and records written to it; the BufWriter holds what was written and not *)
(* yet flushed.                                                            *)
(***************************************************************************)
\* usize::to_ne_bytes on a little-endian 64-bit target: eight bytes, lowest first
WORD_BYTES == 8

RECURSIVE pow256(_)
pow256(k) == IF k = 0 THEN 1 ELSE 256 * pow256(k - 1)

\* the byte of weight 256^(k-1) of x; past the fourth byte a value below 2^31 has none
byte_of(x, k) == IF k > 4 THEN 0 ELSE (x \div pow256(k - 1)) % 256

usize_to_ne_bytes(x) == [k \in 1..WORD_BYTES |-> byte_of(x, k)]

\* i64::to_ne_bytes: two's complement, a negative x as the complement of -x - 1
i64_to_ne_bytes(x) ==
    IF x >= 0
    THEN [k \in 1..WORD_BYTES |-> byte_of(x, k)]
    ELSE [k \in 1..WORD_BYTES |-> 255 - byte_of(-x - 1, k)]

RECURSIVE le_value(_, _)
le_value(bytes, k) ==
    IF k > Len(bytes) THEN 0 ELSE bytes[k] * pow256(k - 1) + le_value(bytes, k + 1)

\* usize::from_ne_bytes, for the values that fit the model's integers
usize_from_ne_bytes(bytes) == le_value(SubSeq(bytes, 1, 4), 1)

\* i64::from_ne_bytes
i64_from_ne_bytes(bytes) ==
    IF bytes[WORD_BYTES] >= 128
    THEN -le_value([k \in 1..4 |-> 255 - bytes[k]], 1) - 1
    ELSE le_value(SubSeq(bytes, 1, 4), 1)

RECURSIVE flatten(_)
flatten(seqs) == IF seqs = << >> THEN << >> ELSE Head(seqs) \o flatten(Tail(seqs))

\* search.rs:341-372: the bytes the consumer writes for one seed
record_bytes(program) ==
    LET code_bytes == [k \in 1..size(program.code) |-> to_u8(to_vec(program.code)[k])]
        jump_table_bytes ==
            flatten([k \in 1..Len(program.jump_table) |-> i64_to_ne_bytes(program.jump_table[k])])
    IN  code_bytes
        \o jump_table_bytes
        \o program.continue_state.program_state.tape
        \o <<program.continue_state.program_state.tape_head>>
        \o usize_to_ne_bytes(program.continue_state.resume_pc)
        \o usize_to_ne_bytes(program.continue_state.resume_output_ind)
        \o usize_to_ne_bytes(program.current_paren_count)

\* search.rs:317  format!("program_{}_seeds_{}.bin", MAX_TAPE_SIZE, program_size)
WriterPath(program_size) == <<"program_", MAX_TAPE_SIZE, "_seeds_", program_size, ".bin">>

NoWriter == [thread |-> "none"]

\* search.rs:316-382: the writer new() returns, the header in its buffer and
\* its consumer thread spawned
DiskSeedWriter_new(program_size) ==
    [path |-> WriterPath(program_size),
     program_size |-> program_size,
     sender |-> TRUE,            \* Some(sender)
     handle |-> TRUE,            \* Some(handle)
     queue |-> << >>,            \* the channel
     buffer |-> usize_to_ne_bytes(program_size),   \* line 331, held by the BufWriter
     thread |-> "running",
     dropped |-> FALSE]

\* OpenOptions ... create(true).truncate(true).open(file_path)
create_truncate(d, path) == (path :> << >>) @@ d

\* append that sends whatever it is given
append_any_size(w, program) ==
    IF w.sender THEN [w EXCEPT !.queue = Append(@, program)] ELSE w

\* search.rs:384-398: append; the writer after the call, or Panicked
DiskSeedWriter_append(w, program) ==
    IF size(program.code) # w.program_size
    THEN Panicked
    ELSE IF w.sender
         THEN [w EXCEPT !.queue = Append(@, program)]
         ELSE w

\* the writer goes out of scope: the sender and the handle are dropped
drop_writer(w) == [w EXCEPT !.sender = FALSE, !.handle = FALSE, !.dropped = TRUE]

\* search.rs:337-374: the consumer's `for program in receiver` ends once the
\* channel is empty and the sender is gone.  The thread then drops its Arc of the
\* file; when the writer is gone too, dropping the BufWriter flushes it.
Writer_ThreadExit ==
    /\ current_program_writing_head.thread = "running"
    /\ ~current_program_writing_head.sender
    /\ current_program_writing_head.queue = << >>
    /\ LET w == current_program_writing_head
       IN  IF w.dropped
           THEN /\ dir' = [dir EXCEPT ![w.path] = @ \o w.buffer]
                /\ current_program_writing_head' = [w EXCEPT !.thread = "done", !.buffer = << >>]
           ELSE /\ dir' = dir
                /\ current_program_writing_head' = [w EXCEPT !.thread = "done"]
    /\ UNCHANGED <<interp_vars, starting_program, fpc, starting_code, current_program_size,
                   paren_count, jump_table, find_res>>
    /\ UNCHANGED caller

\* a consumer that takes the seed sent last
Consume_newest ==
    /\ current_program_writing_head.thread = "running"
    /\ current_program_writing_head.queue # << >>
    /\ LET q == current_program_writing_head.queue
       IN  current_program_writing_head' =
              [current_program_writing_head EXCEPT
                  !.queue = SubSeq(q, 1, Len(q) - 1),
                  !.buffer = @ \o record_bytes(q[Len(q)])]
    /\ UNCHANGED <<interp_vars, starting_program, fpc, starting_code, current_program_size,
                   paren_count, jump_table, dir, find_res, caller>>

\* search.rs:338-373: the consumer takes the next seed off the channel and
\* writes its record into the BufWriter
Writer_Consume ==
    /\ current_program_writing_head.thread = "running"
    /\ current_program_writing_head.queue # << >>
    /\ current_program_writing_head' =
          [current_program_writing_head EXCEPT
              !.queue = Tail(@),
              !.buffer = @ \o record_bytes(Head(current_program_writing_head.queue))]
    /\ UNCHANGED <<interp_vars, starting_program, fpc, starting_code, current_program_size,
                   paren_count, jump_table, dir, find_res, caller>>

(***************************************************************************)
(* search.rs:414-520: DiskSeedReader, a record [file, pos, program_size]:  *)
(* the name of the open file, the bytes consumed and the seed length.      *)
(***************************************************************************)
\* search.rs:422  format!("program_seeds_{}.bin", program_size)
ReaderPath(program_size) == <<"program_seeds_", program_size, ".bin">>

\* Option of a seed, as read_seed returns it
Some(value) == [tag |-> "Some", value |-> value]

NoSeed == [tag |-> "None"]

\* Read::read_exact of n bytes at pos: the bytes, or an error with the rest of
\* the file consumed
read_exact(content, pos, n) ==
    IF pos + n > Len(content)
    THEN [ok |-> FALSE, pos |-> Len(content)]
    ELSE [ok |-> TRUE, pos |-> pos + n, bytes |-> SubSeq(content, pos + 1, pos + n)]

\* search.rs:420-441: new, given the directory; the reader, or Panicked.  The
\* length read from the header shadows the argument, so the comparison at
\* line 433 is of the header's length with itself.
DiskSeedReader_new(d, program_size) ==
    LET file_path == ReaderPath(program_size)
    IN  IF file_path \notin DOMAIN d
        THEN Panicked
        ELSE LET header == read_exact(d[file_path], 0, WORD_BYTES)
             IN  IF ~header.ok
                 THEN Panicked
                 ELSE LET read_size == usize_from_ne_bytes(header.bytes)
                      IN  IF read_size # read_size
                          THEN Panicked
                          ELSE [file |-> file_path, pos |-> header.pos, program_size |-> read_size]

\* lines 452-458: the instructions stored one by one
RECURSIVE fill_code(_, _, _)
fill_code(code, code_bytes, i) ==
    IF i >= Len(code_bytes)
    THEN code
    ELSE fill_code(set(code, i, from_u8(code_bytes[i + 1])), code_bytes, i + 1)

\* search.rs:443-519: read_seed on the file's content; the Option returned and
\* the reader after the call
read_seed(self, content) ==
    LET n == self.program_size
        miss(at) == [seed |-> NoSeed, reader |-> [self EXCEPT !.pos = at]]
        code_read == read_exact(content, self.pos, n)
    IN  IF ~code_read.ok THEN miss(code_read.pos)
        ELSE IF \E k \in 1..n : from_u8(code_read.bytes[k]) = None THEN miss(code_read.pos)
        ELSE
        LET code == fill_code(CompressedBF_new(n, n + 1), code_read.bytes, 0)
            jt_read == read_exact(content, code_read.pos, n * WORD_BYTES)
        IN  IF ~jt_read.ok THEN miss(jt_read.pos)
            ELSE
            LET jt == [i \in 1..n |->
                          i64_from_ne_bytes(SubSeq(jt_read.bytes, (i - 1) * WORD_BYTES + 1,
                                                   i * WORD_BYTES))]
                tape_read == read_exact(content, jt_read.pos, MAX_TAPE_SIZE)
            IN  IF ~tape_read.ok THEN miss(tape_read.pos)
                ELSE
                LET head_read == read_exact(content, tape_read.pos, 1)
                IN  IF ~head_read.ok THEN miss(head_read.pos)
                    ELSE
                    LET pc_read == read_exact(content, head_read.pos, WORD_BYTES)
                    IN  IF ~pc_read.ok THEN miss(pc_read.pos)
                        ELSE
                        LET out_read == read_exact(content, pc_read.pos, WORD_BYTES)
                        IN  IF ~out_read.ok THEN miss(out_read.pos)
                            ELSE
                            LET paren_read == read_exact(content, out_read.pos, WORD_BYTES)
                            IN  IF ~paren_read.ok THEN miss(paren_read.pos)
                                ELSE
                                [seed |-> Some(RunningProgramInfo(
                                              code,
                                              usize_from_ne_bytes(paren_read.bytes),
                                              jt,
                                              ContinueState(tape_read.bytes,
                                                            head_read.bytes[1],
                                                            usize_from_ne_bytes(pc_read.bytes),
                                                            usize_from_ne_bytes(out_read.bytes)))),
                                 reader |-> [self EXCEPT !.pos = paren_read.pos]]

(***************************************************************************)
(* search.rs:9-276: find_program.                                          *)
(***************************************************************************)
Ok(program) == [tag |-> "Ok", program |-> program]

Err(message) == [tag |-> "Err", message |-> message]

Aborted == [tag |-> "panic"]

Running == [tag |-> "running"]

\* lines 20-27
RECURSIVE count_parens(_, _, _)
count_parens(code, i, count) ==
    IF i >= size(code)
    THEN count
    ELSE LET instruction == get(code, i)
         IN  count_parens(code, i + 1,
                 CASE instruction = "LoopStart" -> count + 1
                   [] instruction = "LoopEnd" -> count - 1
                   [] OTHER -> count)

\* lines 33-48
RECURSIVE build_jump_table(_, _, _)
build_jump_table(code, i, jt) ==
    IF i >= size(code)
    THEN [err |-> None, jump_table |-> jt]
    ELSE LET instruction == get(code, i)
         IN  CASE instruction = "LoopStart" -> build_jump_table(code, i + 1, Append(jt, -2))
               [] instruction = "LoopEnd" ->
                    LET found == rposition(jt)
                        loop_start_index == found[1]
                    IN  IF found = << >>
                        THEN [err |-> "Loop end without matching loop start.", jump_table |-> jt]
                        ELSE build_jump_table(code, i + 1,
                                 Append([jt EXCEPT ![loop_start_index + 1] = i + 1],
                                        loop_start_index + 1))
               [] OTHER -> build_jump_table(code, i + 1, Append(jt, -1))

\* lines 14-17
F_Parse ==
    /\ fpc = "start"
    /\ LET code == from_string(starting_program)
       IN  /\ starting_code' = code
           /\ current_program_size' = size(code)
           /\ current_program_writing_head' = DiskSeedWriter_new(size(code))
           /\ dir' = create_truncate(dir, WriterPath(size(code)))
    /\ fpc' = "paren_check"
    /\ UNCHANGED <<interp_vars, starting_program, paren_count, jump_table, find_res>>
    /\ UNCHANGED caller

\* lines 19-30
F_ParenCheck ==
    /\ fpc = "paren_check"
    /\ LET count == count_parens(starting_code, 0, 0)
       IN  /\ paren_count' = count
           /\ IF count # 0
              THEN /\ find_res' = Err("Starting program has unmatched parentheses.")
                   /\ fpc' = "returned"
                   /\ current_program_writing_head' = drop_writer(current_program_writing_head)
              ELSE /\ fpc' = "jump_table"
                   /\ UNCHANGED <<find_res, current_program_writing_head>>
    /\ UNCHANGED <<interp_vars, starting_program, starting_code, current_program_size,
                   jump_table, dir>>
    /\ UNCHANGED caller

\* the jump table taken as built, whatever the pass met
JumpTable_unchecked ==
    /\ fpc = "jump_table"
    /\ jump_table' = build_jump_table(starting_code, 0, << >>).jump_table
    /\ fpc' = "run_initial"
    /\ UNCHANGED <<find_res, current_program_writing_head>>
    /\ UNCHANGED <<interp_vars, starting_program, starting_code, current_program_size,
                   paren_count, dir>>
    /\ UNCHANGED caller

\* lines 32-48
F_JumpTable ==
    /\ fpc = "jump_table"
    /\ LET built == build_jump_table(starting_code, 0, << >>)
       IN  /\ jump_table' = built.jump_table
           /\ IF built.err # None
              THEN /\ find_res' = Err(built.err)
                   /\ fpc' = "returned"
                   /\ current_program_writing_head' = drop_writer(current_program_writing_head)
              ELSE /\ fpc' = "run_initial"
                   /\ UNCHANGED <<find_res, current_program_writing_head>>
    /\ UNCHANGED <<interp_vars, starting_program, starting_code, current_program_size,
                   paren_count, dir>>
    /\ UNCHANGED caller

\* lines 50-66: the initial seed is built and handed to run_program_fragment
F_RunInitial ==
    /\ fpc = "run_initial"
    /\ ipc = "idle"
    /\ program_fragment' = RunningProgramInfo(starting_code, 0, jump_table,
                                              ContinueState(ZeroTape, 0, 0, 0))
    /\ ipc' = "tcall"
    /\ fpc' = "initial_running"
    /\ UNCHANGED <<target_output, tape, tape_head, pc, output_ind, steps, run_res, emitted,
                   MAX_STEPS_REACHED, GLOBAL>>
    /\ UNCHANGED <<starting_program, starting_code, current_program_size, paren_count,
                   jump_table, current_program_writing_head, dir, find_res>>
    /\ UNCHANGED caller

\* the panic of the call at line 66 unwinds find_program; its locals are dropped
F_Unwind ==
    /\ fpc = "initial_running"
    /\ ipc = "panic"
    /\ fpc' = "panicked"
    /\ find_res' = Aborted
    /\ current_program_writing_head' = drop_writer(current_program_writing_head)
    /\ UNCHANGED <<interp_vars, starting_program, starting_code, current_program_size,
                   paren_count, jump_table, dir>>
    /\ UNCHANGED caller

\* the state of the search variables while find_program is not running
SearchIdle ==
    /\ starting_program = << >>
    /\ fpc = "idle"
    /\ starting_code = CompressedBF_new(0, 0)
    /\ current_program_size = 0
    /\ paren_count = 0
    /\ jump_table = << >>
    /\ current_program_writing_head = NoWriter
    /\ dir = << >>
    /\ find_res = Running

\* no caller of the public functions is at work
NoCaller == [pc |-> "none"]

\* the characters of a starting program: the eight symbols and one other character
Chars == {Symbols[k] : k \in 1..8} \cup {"x"}

Init ==
    /\ target_output \in SearchTargets
    /\ starting_program \in SeqsUpTo(Chars, MaxStartLen)
    /\ fpc = "start"
    /\ starting_code = CompressedBF_new(0, 0)
    /\ current_program_size = 0
    /\ paren_count = 0
    /\ jump_table = << >>
    /\ current_program_writing_head = NoWriter
    /\ dir = << >>
    /\ find_res = Running
    /\ program_fragment = RunningProgramInfo(CompressedBF_new(0, 0), 0, << >>,
                                             ContinueState(ZeroTape, 0, 0, 0))
    /\ ipc = "idle"
    /\ tape = ZeroTape
    /\ tape_head = 0
    /\ pc = 0
    /\ output_ind = 0
    /\ steps = 0
    /\ run_res = NoResult
    /\ emitted = << >>
    /\ MAX_STEPS_REACHED = 0
    /\ GLOBAL = EmptyGlobal
    /\ caller = NoCaller

Next ==
    \/ F_Parse
    \/ F_ParenCheck
    \/ F_JumpTable
    \/ F_RunInitial
    \/ Track_Enter
    \/ F_Unwind
    \/ Writer_ThreadExit

Spec == Init /\ [][Next]_vars

(***************************************************************************)
(* The interpreter on its own: a seed and a target are handed to           *)
(* run_program_fragment_without_states.                                    *)
(***************************************************************************)
RECURSIVE pack_from(_, _, _)
pack_from(s, k, bf) == IF k > Len(s) THEN bf ELSE pack_from(s, k + 1, append(bf, s[k]))

\* the code buffer holding the instructions of s, appended one by one
pack(s) == pack_from(s, 1, CompressedBF_new(0, 0))

\* a seed over the instructions s: the jump table of the single pass, the
\* count of loops still open, and a resume state
SeedOf(s, t, h, p, o) ==
    LET c == pack(s)
        jp == jump_table_pass(c, 0, << >>, 0)
    IN  RunningProgramInfo(c, jp.current_paren_count, jp.jump_table, ContinueState(t, h, p, o))

WellBracketedPrefixes(n) ==
    {s \in SeqsUpTo(Instructions, n) : jump_table_pass(pack(s), 0, << >>, 0).err = None}

RunSeeds(target) ==
    {SeedOf(x[1], [k \in 1..MAX_TAPE_SIZE |-> IF k = x[2] + 1 THEN x[3] ELSE 0], x[2], x[4], x[5]) :
        x \in {y \in WellBracketedPrefixes(MaxCodeLen) \X ResumeHeads \X ResumeCells
                        \X (0..MaxCodeLen) \X {0, Len(target)} :
                  y[4] \in {0, Max(Len(y[1]), 1) - 1}}}

InitRun ==
    /\ target_output \in RunTargets
    /\ program_fragment \in RunSeeds(target_output)
    /\ ipc = "call"
    /\ tape = ZeroTape
    /\ tape_head = 0
    /\ pc = 0
    /\ output_ind = 0
    /\ steps = 0
    /\ run_res = NoResult
    /\ emitted = << >>
    /\ MAX_STEPS_REACHED = 0
    /\ GLOBAL = EmptyGlobal
    /\ SearchIdle
    /\ caller = NoCaller

NextRun ==
    \/ Fast_Enter
    \/ Fast_Inc
    \/ Fast_Dec
    \/ Fast_Left
    \/ Fast_Right
    \/ Fast_LoopStart
    \/ Fast_LoopEnd
    \/ Fast_Output
    \/ Fast_Input
    \/ Fast_Fallback
    \/ Fast_Exit
    \/ Track_Enter

SpecRun == InitRun /\ [][NextRun]_vars

(***************************************************************************)
(* util.rs:9-55: preprocess_input.                                         *)
(***************************************************************************)
\* a compiler that only counts the brackets
preprocess_by_count(input) ==
    LET program_code == from_string(input)
        count == count_parens(program_code, 0, 0)
        pass == jump_table_pass(program_code, 0, << >>, 0)
    IN  IF count < 0
        THEN Err("Loop end without matching loop start.")
        ELSE IF count > 0
             THEN Err("Unmatched loop in the input.")
             ELSE Ok(RunningProgramInfo(program_code, 0, pass.jump_table,
                                        ContinueState(ZeroTape, 0, 0, 0)))

\* Ok carries the RunningProgramInfo in its `program` field
preprocess_input(input) ==
    LET program_code == from_string(input)
        pass == jump_table_pass(program_code, 0, << >>, 0)
    IN  IF pass.err # None
        THEN Err(pass.err)
        ELSE IF pass.current_paren_count # 0
             THEN Err("Unmatched loop in the input.")
             ELSE Ok(RunningProgramInfo(program_code, pass.current_paren_count, pass.jump_table,
                                        ContinueState(ZeroTape, 0, 0, 0)))

(***************************************************************************)
(* The two interpreters on one seed: a caller compiles an input with       *)
(* preprocess_input, runs run_program_fragment on the seed in a thread of  *)
(* its own, joins it, and then runs run_program_fragment_without_states on *)
(* the same seed and target.                                               *)
(***************************************************************************)
\* the interpreter's variables before a call
InterpIdle ==
    /\ tape = ZeroTape
    /\ tape_head = 0
    /\ pc = 0
    /\ output_ind = 0
    /\ steps = 0
    /\ run_res = NoResult
    /\ emitted = << >>
    /\ MAX_STEPS_REACHED = 0
    /\ GLOBAL = EmptyGlobal

EmptySeed == RunningProgramInfo(CompressedBF_new(0, 0), 0, << >>, ContinueState(ZeroTape, 0, 0, 0))

InitModes ==
    /\ target_output \in RunTargets
    /\ caller \in {[pc |-> "start", input |-> x, compiled |-> Running, track_res |-> NoResult] :
                      x \in SeqsUpTo(Chars, MaxInputLen)}
    /\ program_fragment = EmptySeed
    /\ ipc = "idle"
    /\ InterpIdle
    /\ SearchIdle

M_Preprocess ==
    /\ caller.pc = "start"
    /\ LET r == preprocess_input(caller.input)
       IN  IF r.tag = "Ok"
           THEN /\ program_fragment' = r.program
                /\ caller' = [caller EXCEPT !.pc = "seeded", !.compiled = r]
           ELSE /\ program_fragment' = program_fragment
                /\ caller' = [caller EXCEPT !.pc = "rejected", !.compiled = r]
    /\ UNCHANGED <<target_output, ipc, tape, tape_head, pc, output_ind, steps, run_res, emitted,
                   MAX_STEPS_REACHED, GLOBAL, search_vars>>

\* the caller's thread enters run_program_fragment
M_CallTracking ==
    /\ caller.pc = "seeded"
    /\ ipc = "idle"
    /\ ipc' = "tcall"
    /\ caller' = [caller EXCEPT !.pc = "tracking"]
    /\ UNCHANGED <<target_output, program_fragment, tape, tape_head, pc, output_ind, steps,
                   run_res, emitted, MAX_STEPS_REACHED, GLOBAL, search_vars>>

\* join() on the thread: Err for a panic; the caller goes on to the fast run
M_JoinTracking ==
    /\ caller.pc = "tracking"
    /\ ipc = "panic"
    /\ ipc' = "call"
    /\ caller' = [caller EXCEPT !.pc = "fast", !.track_res = Aborted]
    /\ UNCHANGED <<target_output, program_fragment, tape, tape_head, pc, output_ind, steps,
                   run_res, emitted, MAX_STEPS_REACHED, GLOBAL, search_vars>>

NextModes ==
    \/ M_Preprocess
    \/ M_CallTracking
    \/ Track_Enter
    \/ M_JoinTracking
    \/ Fast_Enter
    \/ Fast_Inc
    \/ Fast_Dec
    \/ Fast_Left
    \/ Fast_Right
    \/ Fast_LoopStart
    \/ Fast_LoopEnd
    \/ Fast_Output
    \/ Fast_Input
    \/ Fast_Fallback
    \/ Fast_Exit

SpecModes == InitModes /\ [][NextModes]_vars

(***************************************************************************)
(* preprocess_input on its own.                                            *)
(***************************************************************************)
InitPre ==
    /\ target_output = << >>
    /\ caller \in {[pc |-> "start", input |-> x, compiled |-> Running, track_res |-> NoResult] :
                      x \in SeqsUpTo(Chars, MaxPreLen)}
    /\ program_fragment = EmptySeed
    /\ ipc = "idle"
    /\ InterpIdle
    /\ SearchIdle

NextPre == M_Preprocess

SpecPre == InitPre /\ [][NextPre]_vars

(***************************************************************************)
(* CompressedBF on its own: a caller builds a code with new and then       *)
(* appends to it and sets elements of it.  The caller remembers the        *)
(* arguments of new (origin), its last call (op), whether the code was     *)
(* built from new(0, 0) by appends alone (plain) and, while it was, the    *)
(* instructions appended (S).                                              *)
(***************************************************************************)
InitData ==
    /\ caller \in {[pc |-> "new", origin |-> a, bf |-> None, plain |-> FALSE, S |-> << >>,
                       op |-> <<"none">>] :
                      a \in NewArgs}
    /\ target_output = << >>
    /\ program_fragment = EmptySeed
    /\ ipc = "idle"
    /\ InterpIdle
    /\ SearchIdle

DataFrame == UNCHANGED <<interp_vars, search_vars>>

D_New ==
    /\ caller.pc = "new"
    /\ LET made == CompressedBF_new(caller.origin[1], caller.origin[2])
       IN  caller' = IF made = Panicked
                     THEN [caller EXCEPT !.pc = "panicked", !.op = <<"new">>]
                     ELSE [caller EXCEPT !.pc = "ready", !.op = <<"new">>, !.bf = made,
                                         !.plain = (caller.origin = <<0, 0>>)]
    /\ DataFrame

D_Append(value) ==
    /\ caller.pc = "ready"
    /\ size(caller.bf) < MaxPackLen
    /\ caller' = [caller EXCEPT !.bf = append(caller.bf, value),
                                !.op = <<"append", value>>,
                                !.S = IF caller.plain THEN Append(caller.S, value) ELSE << >>]
    /\ DataFrame

D_Set(index, value) ==
    /\ caller.pc = "ready"
    /\ LET stored == set(caller.bf, index, value)
       IN  caller' = IF stored = Panicked
                     THEN [caller EXCEPT !.pc = "panicked", !.op = <<"set", index, value>>]
                     ELSE [caller EXCEPT !.bf = stored, !.op = <<"set", index, value>>,
                                         !.plain = FALSE, !.S = << >>]
    /\ DataFrame

NextData ==
    \/ D_New
    \/ \E value \in Instructions : D_Append(value)
    \/ \E index \in 0..MaxIndex, value \in Instructions : D_Set(index, value)

SpecData == InitData /\ [][NextData]_vars

(***************************************************************************)
(* The frontier files on their own: a caller makes a DiskSeedWriter for    *)
(* length n, appends a list of seeds, flushes, makes a DiskSeedReader for  *)
(* length n and reads seeds until read_seed returns None.  A seed of the   *)
(* list may be of another length, which append refuses with a panic that   *)
(* unwinds the caller and drops the writer.  The consumer thread of the    *)
(* writer runs alongside.  The working directory is empty at               *)
(* the start or holds a program_seeds_<n>.bin left by an earlier run (the  *)
(* name src/src/main.rs writes its frontier under).                        *)
(***************************************************************************)
\* codes of exactly n instructions for the seeds written
FrontierCodes(n) ==
    {s \in WellBracketedPrefixes(n) :
        Len(s) = n /\ \A k \in 1..n : s[k] \in {"LoopStart", "LoopEnd", "Output"}}

\* the seeds of length n: each code with two resume states
FrontierSeeds(n) ==
    {SeedOf(s, x[1], x[2], n, x[3]) :
        s \in FrontierCodes(n), x \in {<<ZeroTape, 0, 0>>, <<<<1, 0, 0, 255>>, 3, 1>>}}

\* the seed of a file left by an earlier run
LeftoverSeed(n) == SeedOf([k \in 1..n |-> "Output"], <<0, 7, 0, 0>>, 1, n, 0)

\* a record cut short of its last byte
truncated(record) == SubSeq(record, 1, Len(record) - 1)

\* a record whose first instruction byte is no instruction (from_u8 gives None)
bad_instruction(record) == [record EXCEPT ![1] = 9]

\* the contents of such a file: under the header of n one whole record, a
\* record cut short, or (n > 0) a record with a byte that is no instruction;
\* or, under the header of another length, nothing or one record of that length
LeftoverFiles(n) ==
    {usize_to_ne_bytes(n) \o record_bytes(LeftoverSeed(n)),
     usize_to_ne_bytes(n) \o truncated(record_bytes(LeftoverSeed(n))),
     usize_to_ne_bytes(n + 1),
     usize_to_ne_bytes(n + 1) \o record_bytes(LeftoverSeed(n + 1))}
    \cup {usize_to_ne_bytes(n) \o bad_instruction(record_bytes(LeftoverSeed(n))) : k \in 1..n}

\* a seed of another length than the writer's
MismatchSeed(n) == SeedOf([k \in 1..(n + 1) |-> "Output"], ZeroTape, 0, n + 1, 0)

InitFrontier ==
    /\ \E n \in 0..MaxFrontierLen :
          /\ caller \in {[pc |-> "start", n |-> n, todo |-> l, sent |-> << >>,
                          reader |-> NoSeed, got |-> << >>] :
                            l \in SeqsUpTo(FrontierSeeds(n) \cup {MismatchSeed(n)}, MaxSeeds)}
          /\ dir \in {<< >>} \cup {(ReaderPath(n) :> c) : c \in LeftoverFiles(n)}
    /\ current_program_writing_head = NoWriter
    /\ starting_program = << >>
    /\ fpc = "idle"
    /\ starting_code = CompressedBF_new(0, 0)
    /\ current_program_size = 0
    /\ paren_count = 0
    /\ jump_table = << >>
    /\ find_res = Running
    /\ target_output = << >>
    /\ program_fragment = EmptySeed
    /\ ipc = "idle"
    /\ InterpIdle

FrontierFrame ==
    UNCHANGED <<interp_vars, starting_program, fpc, starting_code, current_program_size,
                paren_count, jump_table, find_res>>

\* DiskSeedWriter::new(n)
W_New ==
    /\ caller.pc = "start"
    /\ current_program_writing_head' = DiskSeedWriter_new(caller.n)
    /\ dir' = create_truncate(dir, WriterPath(caller.n))
    /\ caller' = [caller EXCEPT !.pc = "appending"]
    /\ FrontierFrame

\* append of the next seed of the list
W_Append ==
    /\ caller.pc = "appending"
    /\ caller.todo # << >>
    /\ LET after == DiskSeedWriter_append(current_program_writing_head, Head(caller.todo))
       IN  IF after = Panicked
           THEN /\ caller' = [caller EXCEPT !.pc = "append_panicked"]
                /\ current_program_writing_head' = drop_writer(current_program_writing_head)
           ELSE /\ caller' = [caller EXCEPT !.todo = Tail(@), !.sent = Append(@, Head(caller.todo))]
                /\ current_program_writing_head' = after
    /\ UNCHANGED dir
    /\ FrontierFrame

\* search.rs:400-408: flush takes the sender and joins the consumer
W_FlushBegin ==
    /\ caller.pc = "appending"
    /\ caller.todo = << >>
    /\ current_program_writing_head' = [current_program_writing_head EXCEPT !.sender = FALSE]
    /\ caller' = [caller EXCEPT !.pc = "joining"]
    /\ UNCHANGED dir
    /\ FrontierFrame

\* the first flush with the BufWriter's bytes left in the BufWriter
FlushEnd_keeping_buffer ==
    /\ caller.pc = "joining"
    /\ ~current_program_writing_head.handle \/ current_program_writing_head.thread = "done"
    /\ dir' = [dir EXCEPT ![current_program_writing_head.path] =
                              @ \o current_program_writing_head.buffer]
    /\ current_program_writing_head' = [current_program_writing_head EXCEPT !.handle = FALSE]
    /\ caller' = [caller EXCEPT !.pc = "flushed"]
    /\ FrontierFrame

\* search.rs:403-411: the join returns and the BufWriter is flushed to the file
W_FlushEnd ==
    /\ caller.pc = "joining"
    /\ ~current_program_writing_head.handle \/ current_program_writing_head.thread = "done"
    /\ dir' = [dir EXCEPT ![current_program_writing_head.path] =
                              @ \o current_program_writing_head.buffer]
    /\ current_program_writing_head' =
          [current_program_writing_head EXCEPT !.handle = FALSE, !.buffer = << >>]
    /\ caller' = [caller EXCEPT !.pc = "flushed"]
    /\ FrontierFrame

\* DiskSeedReader::new(n)
R_New ==
    /\ caller.pc = "flushed"
    /\ LET made == DiskSeedReader_new(dir, caller.n)
       IN  caller' = IF made = Panicked
                     THEN [caller EXCEPT !.pc = "panicked"]
                     ELSE [caller EXCEPT !.pc = "reading", !.reader = made]
    /\ UNCHANGED <<dir, current_program_writing_head>>
    /\ FrontierFrame

\* read_seed, until it returns None
R_ReadSeed ==
    /\ caller.pc = "reading"
    /\ LET read == read_seed(caller.reader, dir[caller.reader.file])
       IN  caller' = [caller EXCEPT !.reader = read.reader,
                                    !.got = Append(@, read.seed),
                                    !.pc = IF read.seed = NoSeed THEN "eof" ELSE "reading"]
    /\ UNCHANGED <<dir, current_program_writing_head>>
    /\ FrontierFrame

NextFrontier ==
    \/ W_New
    \/ W_Append
    \/ Writer_Consume
    \/ W_FlushBegin
    \/ Writer_ThreadExit
    \/ W_FlushEnd
    \/ R_New
    \/ R_ReadSeed

SpecFrontier == InitFrontier /\ [][NextFrontier]_vars

\* The consumer is an operating-system thread of its own (thread::spawn,
\* search.rs:337) and is scheduled whenever it can take a step; the join of
\* flush (search.rs:403-406) returns once that thread has ended.
SpecFrontierFair ==
    /\ SpecFrontier
    /\ WF_vars(Writer_Consume)
    /\ WF_vars(Writer_ThreadExit)
    /\ WF_vars(W_FlushEnd)

(***************************************************************************)
(* search.rs:92-222: the body of `while let Some(program_seed) = ...` for  *)
(* one parent seed, as find_program would run it after line 86: the       *)
(* writer is the one made for the children's length at line 83.  Each of   *)
(* the seven branches, in the order of the source, builds its child when   *)
(* its condition holds, runs it with run_program_fragment_without_states   *)
(* and gives the result to handle_run_result.  The set found_states is     *)
(* kept in the caller's record.                                            *)
(***************************************************************************)
\* the parent seeds are of at most this many instructions
MaxParentLen == 2

ExtendTargets == {<< >>, <<0>>, <<1>>}

\* tape, head and output cursor of the parents' resume states
ParentResumes ==
    {<<ZeroTape, 0, 0>>, <<<<1, 0, 0, 0>>, 0, 0>>, <<<<0, 0, 0, 255>>, 3, 0>>,
     <<<<1, 0, 0, 0>>, 0, 1>>}

\* what found_states holds when the parent is read
FoundSets == {{}, {<<ProgramState(<<1, 0, 0, 0>>, 0), 0>>}}

\* a seed as read_seed yields it from its record
as_read(seed) ==
    read_seed([file |-> ReaderPath(size(seed.code)), pos |-> 0,
               program_size |-> size(seed.code)],
              record_bytes(seed)).seed.value

\* longer parents, with two loops open
DeeperParents == {<<"LoopStart", "LoopStart", "Inc">>}

\* the parents: codes without Input that are prefixes of bracket-matched
\* programs, resuming at their end
ParentSeeds(target) ==
    {as_read(SeedOf(x[1], x[2][1], x[2][2], Len(x[1]), x[2][3])) :
        x \in {y \in (WellBracketedPrefixes(MaxParentLen) \cup DeeperParents) \X ParentResumes :
                  /\ \A k \in 1..Len(y[1]) : y[1][k] # "Input"
                  /\ y[2][3] <= Len(target)}}

\* a child whose LoopEnd closes the leftmost open loop
child_closing_first(program_seed, instruction) ==
    LET code == append(program_seed.code, instruction)
    IN  CASE instruction = "LoopEnd" ->
                LET loop_start_loc == position_first(program_seed.jump_table)
                IN  IF loop_start_loc = << >>
                    THEN Panicked
                    ELSE [program_seed EXCEPT
                            !.code = code,
                            !.jump_table =
                                Append([@ EXCEPT ![loop_start_loc[1] + 1] = size(code)],
                                       loop_start_loc[1] + 1),
                            !.current_paren_count = @ - 1]
          [] instruction = "LoopStart" ->
                [program_seed EXCEPT !.code = code,
                                     !.current_paren_count = @ + 1,
                                     !.jump_table = Append(@, -2)]
          [] OTHER ->
                [program_seed EXCEPT !.code = code, !.jump_table = Append(@, -1)]

\* a child whose count of open loops is the parent's
child_uncounted(program_seed, instruction) ==
    LET code == append(program_seed.code, instruction)
    IN  CASE instruction = "LoopEnd" ->
                LET loop_start_loc == rposition(program_seed.jump_table)
                IN  IF loop_start_loc = << >>
                    THEN Panicked
                    ELSE [program_seed EXCEPT
                            !.code = code,
                            !.jump_table =
                                Append([@ EXCEPT ![loop_start_loc[1] + 1] = size(code)],
                                       loop_start_loc[1] + 1)]
          [] instruction = "LoopStart" ->
                [program_seed EXCEPT !.code = code, !.jump_table = Append(@, -2)]
          [] OTHER ->
                [program_seed EXCEPT !.code = code, !.jump_table = Append(@, -1)]

\* search.rs:99-110, 124-128, 141-143 (and alike): the child of program_seed by
\* one instruction, its jump table and count of open loops brought up to date
child(program_seed, instruction) ==
    LET code == append(program_seed.code, instruction)
    IN  CASE instruction = "LoopEnd" ->
                LET loop_start_loc == rposition(program_seed.jump_table)
                IN  IF loop_start_loc = << >>
                    THEN Panicked
                    ELSE [program_seed EXCEPT
                            !.code = code,
                            !.jump_table =
                                Append([@ EXCEPT ![loop_start_loc[1] + 1] = size(code)],
                                       loop_start_loc[1] + 1),
                            !.current_paren_count = @ - 1]
          [] instruction = "LoopStart" ->
                [program_seed EXCEPT !.code = code,
                                     !.current_paren_count = @ + 1,
                                     !.jump_table = Append(@, -2)]
          [] OTHER ->
                [program_seed EXCEPT !.code = code, !.jump_table = Append(@, -1)]

\* the instruction the parent ends with, None for the empty parent
last_of(program_seed) ==
    IF size(program_seed.code) = 0
    THEN None
    ELSE get(program_seed.code, size(program_seed.code) - 1)

\* the key of found_states: (ProgramState, usize)
found_key(state) == <<state.program_state, state.resume_output_ind>>

\* handle_run_result that persists every IncompleteOutputSuccess
handle_unfiltered(result, new_program, new_programs, found_states) ==
    LET kept(state, found) ==
            LET w == DiskSeedWriter_append(new_programs,
                                           [new_program EXCEPT !.continue_state = state])
            IN  IF w = Panicked
                THEN Panicked
                ELSE [ret |-> NoSeed, new_programs |-> w, found_states |-> found]
        nothing == [ret |-> NoSeed, new_programs |-> new_programs,
                    found_states |-> found_states]
    IN  CASE result.tag = "IncompleteLoopSuccess" -> kept(result.state, found_states)
          [] result.tag = "Success" ->
                [nothing EXCEPT !.ret = Some(to_vec(new_program.code))]
          [] result.tag = "IncompleteOutputSuccess" ->
                kept(result.state, found_states \cup {found_key(result.state)})
          [] OTHER -> nothing

\* handle_run_result that looks a key up and never inserts one
handle_uninserted(result, new_program, new_programs, found_states) ==
    LET kept(state) ==
            LET w == DiskSeedWriter_append(new_programs,
                                           [new_program EXCEPT !.continue_state = state])
            IN  IF w = Panicked
                THEN Panicked
                ELSE [ret |-> NoSeed, new_programs |-> w, found_states |-> found_states]
        nothing == [ret |-> NoSeed, new_programs |-> new_programs,
                    found_states |-> found_states]
    IN  CASE result.tag = "IncompleteLoopSuccess" -> kept(result.state)
          [] result.tag = "Success" ->
                [nothing EXCEPT !.ret = Some(to_vec(new_program.code))]
          [] result.tag = "IncompleteOutputSuccess" ->
                IF found_key(result.state) \in found_states
                THEN nothing
                ELSE kept(result.state)
          [] OTHER -> nothing

\* search.rs:278-306: handle_run_result; what it returns, the writer and
\* found_states after the call, or Panicked
handle_run_result(result, new_program, new_programs, found_states) ==
    LET kept(state, found) ==
            LET w == DiskSeedWriter_append(new_programs,
                                           [new_program EXCEPT !.continue_state = state])
            IN  IF w = Panicked
                THEN Panicked
                ELSE [ret |-> NoSeed, new_programs |-> w, found_states |-> found]
        nothing == [ret |-> NoSeed, new_programs |-> new_programs,
                    found_states |-> found_states]
    IN  CASE result.tag = "IncompleteLoopSuccess" -> kept(result.state, found_states)
          [] result.tag = "Success" ->
                [nothing EXCEPT !.ret = Some(to_vec(new_program.code))]
          [] result.tag = "IncompleteOutputSuccess" ->
                IF found_key(result.state) \in found_states
                THEN nothing
                ELSE kept(result.state, found_states \cup {found_key(result.state)})
          [] OTHER -> nothing

InitExtend ==
    /\ target_output \in ExtendTargets
    /\ \E program_seed \in ParentSeeds(target_output) :
          /\ caller \in {[pc |-> "extend", k |-> 1, program_seed |-> program_seed,
                          found_states |-> f, produced |-> << >>, appended |-> << >>] :
                            f \in FoundSets}
          /\ current_program_size = size(program_seed.code) + 1
    /\ current_program_writing_head = DiskSeedWriter_new(current_program_size)
    /\ dir = create_truncate(<< >>, WriterPath(current_program_size))
    /\ starting_program = << >>
    /\ fpc = "idle"
    /\ starting_code = CompressedBF_new(0, 0)
    /\ paren_count = 0
    /\ jump_table = << >>
    /\ find_res = Running
    /\ program_fragment = EmptySeed
    /\ ipc = "idle"
    /\ InterpIdle

\* the caller's record once branch k is done with
branch_done(c) ==
    IF c.k = 7 THEN [c EXCEPT !.pc = "next"] ELSE [c EXCEPT !.pc = "extend", !.k = @ + 1]

\* branch k of the body: when its condition holds the child is built and the
\* fast interpreter called on it
Branch(k, instruction, condition) ==
    /\ caller.pc = "extend"
    /\ caller.k = k
    /\ IF condition
       THEN LET new_program == child(caller.program_seed, instruction)
            IN  IF new_program = Panicked
                THEN /\ caller' = [caller EXCEPT !.pc = "panicked"]
                     /\ current_program_writing_head' = drop_writer(current_program_writing_head)
                     /\ UNCHANGED <<program_fragment, ipc>>
                ELSE /\ caller' = [caller EXCEPT !.pc = "running",
                                                 !.produced = Append(@, instruction)]
                     /\ program_fragment' = new_program
                     /\ ipc' = "call"
                     /\ UNCHANGED current_program_writing_head
       ELSE /\ caller' = branch_done(caller)
            /\ UNCHANGED <<program_fragment, ipc, current_program_writing_head>>
    /\ UNCHANGED <<target_output, tape, tape_head, pc, output_ind, steps, run_res, emitted,
                   MAX_STEPS_REACHED, GLOBAL>>
    /\ UNCHANGED <<starting_program, fpc, starting_code, current_program_size, paren_count,
                   jump_table, dir, find_res>>

\* search.rs:93-121
X_LoopEnd ==
    Branch(1, "LoopEnd",
           /\ size(caller.program_seed.code) = 0 \/ last_of(caller.program_seed) # "LoopStart"
           /\ caller.program_seed.current_paren_count > 0)

\* search.rs:122-138
X_LoopStart == Branch(2, "LoopStart", TRUE)

\* search.rs:139-153
X_Output == Branch(3, "Output", TRUE)

\* Left tried after any parent
Left_after_Right == Branch(4, "Left", TRUE)

\* search.rs:154-170
X_Left ==
    Branch(4, "Left",
           size(caller.program_seed.code) = 0 \/ last_of(caller.program_seed) # "Right")

\* search.rs:171-187
X_Right ==
    Branch(5, "Right",
           size(caller.program_seed.code) = 0 \/ last_of(caller.program_seed) # "Left")

\* search.rs:188-204
X_Inc ==
    Branch(6, "Inc",
           size(caller.program_seed.code) = 0 \/ last_of(caller.program_seed) # "Dec")

\* search.rs:205-221
X_Dec ==
    Branch(7, "Dec",
           size(caller.program_seed.code) = 0 \/ last_of(caller.program_seed) # "Inc")

\* the fast interpreter has returned: the `if let Some(working_program) =
\* handle_run_result(..)` of the branch, with `return Ok(working_program)`
\* dropping the writer
X_Handle ==
    /\ caller.pc = "running"
    /\ ipc = "ret"
    /\ LET handled == handle_run_result(run_res, program_fragment,
                                        current_program_writing_head, caller.found_states)
       IN  IF handled = Panicked
           THEN /\ caller' = [caller EXCEPT !.pc = "panicked"]
                /\ current_program_writing_head' = drop_writer(current_program_writing_head)
                /\ UNCHANGED find_res
           ELSE IF handled.ret # NoSeed
           THEN /\ caller' = [caller EXCEPT !.pc = "returned",
                                            !.found_states = handled.found_states,
                                            !.appended = Append(@, FALSE)]
                /\ current_program_writing_head' = drop_writer(handled.new_programs)
                /\ find_res' = Ok(handled.ret.value)
           ELSE /\ caller' = branch_done(
                                [caller EXCEPT
                                    !.found_states = handled.found_states,
                                    !.appended =
                                        Append(@, handled.new_programs.queue
                                                    # current_program_writing_head.queue)])
                /\ current_program_writing_head' = handled.new_programs
                /\ UNCHANGED find_res
    /\ ipc' = "idle"
    /\ UNCHANGED <<target_output, program_fragment, tape, tape_head, pc, output_ind, steps,
                   run_res, emitted, MAX_STEPS_REACHED, GLOBAL>>
    /\ UNCHANGED <<starting_program, fpc, starting_code, current_program_size, paren_count,
                   jump_table, dir>>

\* the interpreter has panicked: find_program unwinds and the writer is dropped
X_Unwind ==
    /\ caller.pc = "running"
    /\ ipc = "panic"
    /\ caller' = [caller EXCEPT !.pc = "panicked"]
    /\ current_program_writing_head' = drop_writer(current_program_writing_head)
    /\ ipc' = "idle"
    /\ UNCHANGED <<target_output, program_fragment, tape, tape_head, pc, output_ind, steps,
                   run_res, emitted, MAX_STEPS_REACHED, GLOBAL>>
    /\ UNCHANGED <<starting_program, fpc, starting_code, current_program_size, paren_count,
                   jump_table, dir, find_res>>

NextExtend ==
    \/ X_LoopEnd
    \/ X_LoopStart
    \/ X_Output
    \/ X_Left
    \/ X_Right
    \/ X_Inc
    \/ X_Dec
    \/ Fast_Enter
    \/ Fast_Inc
    \/ Fast_Dec
    \/ Fast_Left
    \/ Fast_Right
    \/ Fast_LoopStart
    \/ Fast_LoopEnd
    \/ Fast_Output
    \/ Fast_Fallback
    \/ Fast_Exit
    \/ Track_Enter
    \/ X_Handle
    \/ X_Unwind
    \/ Writer_Consume
    \/ Writer_ThreadExit

SpecExtend == InitExtend /\ [][NextExtend]_vars

(***************************************************************************)
(* A seed's resume state against a run of its whole code: the fast         *)
(* interpreter runs a parent's code from the all-zero tape and PC 0; if    *)
(* the result is one handle_run_result keeps, the parent is given that     *)
(* resume state (search.rs:286, 300) and a child is built of it as the     *)
(* loop body does; the child is run from the parent's resume state and     *)
(* then, with a zeroed resume state, from PC 0.                            *)
(***************************************************************************)
\* search.rs:93-96, 155-156, 172-173, 189-190, 206-207: the condition of the
\* branch of `instruction`
branch_condition(program_seed, instruction) ==
    CASE instruction = "LoopEnd" ->
            /\ size(program_seed.code) = 0 \/ last_of(program_seed) # "LoopStart"
            /\ program_seed.current_paren_count > 0
      [] instruction = "Left" ->
            size(program_seed.code) = 0 \/ last_of(program_seed) # "Right"
      [] instruction = "Right" ->
            size(program_seed.code) = 0 \/ last_of(program_seed) # "Left"
      [] instruction = "Inc" ->
            size(program_seed.code) = 0 \/ last_of(program_seed) # "Dec"
      [] instruction = "Dec" ->
            size(program_seed.code) = 0 \/ last_of(program_seed) # "Inc"
      [] OTHER -> instruction \in {"LoopStart", "Output"}

\* the results handle_run_result keeps the seed of
kept_result(result) == result.tag \in {"IncompleteLoopSuccess", "IncompleteOutputSuccess"}

\* longer parents, with a loop whose body has run once; the last one takes
\* MAX_STEPS steps from PC 0
LoopParents ==
    {<<"Dec", "Dec", "LoopStart", "Inc">>, <<"Inc", "LoopStart", "Inc">>,
     <<"Inc", "LoopStart", "Dec">>, <<"Inc", "LoopStart", "Output", "Dec">>,
     <<"Dec", "Dec", "Dec", "LoopStart", "Inc", "LoopEnd", "Right", "Inc">>}

InitResume ==
    /\ target_output \in ExtendTargets
    /\ \E s \in WellBracketedPrefixes(MaxParentLen) \cup LoopParents :
          /\ \A k \in 1..Len(s) : s[k] # "Input"
          /\ program_fragment = as_read(SeedOf(s, ZeroTape, 0, 0, 0))
    /\ caller = [pc |-> "parent", program_seed |-> EmptySeed,
                 from_resume |-> NoResult, from_scratch |-> NoResult]
    /\ ipc = "call"
    /\ InterpIdle
    /\ SearchIdle

ResumeFrame ==
    UNCHANGED <<target_output, tape, tape_head, pc, output_ind, steps, run_res, emitted,
                MAX_STEPS_REACHED, GLOBAL, search_vars>>

\* the parent's run has returned: a kept parent is extended by one of the
\* instructions its branches allow and the child run from the parent's state
S_Extend ==
    /\ caller.pc = "parent"
    /\ ipc = "ret"
    /\ IF kept_result(run_res)
       THEN LET program_seed == [program_fragment EXCEPT !.continue_state = run_res.state]
            IN  \E instruction \in Instructions :
                   /\ branch_condition(program_seed, instruction)
                   /\ child(program_seed, instruction) # Panicked
                   /\ program_fragment' = child(program_seed, instruction)
                   /\ caller' = [caller EXCEPT !.pc = "resumed", !.program_seed = program_seed]
                   /\ ipc' = "call"
       ELSE /\ caller' = [caller EXCEPT !.pc = "dropped"]
            /\ ipc' = "idle"
            /\ UNCHANGED program_fragment
    /\ ResumeFrame

\* the child's run from the parent's state has returned: the same code is run
\* from PC 0 on the all-zero tape
S_FromScratch ==
    /\ caller.pc = "resumed"
    /\ ipc = "ret"
    /\ caller' = [caller EXCEPT !.pc = "scratch", !.from_resume = run_res]
    /\ program_fragment' =
          [program_fragment EXCEPT !.continue_state = ContinueState(ZeroTape, 0, 0, 0)]
    /\ ipc' = "call"
    /\ ResumeFrame

\* the run from PC 0 has returned
S_Compare ==
    /\ caller.pc = "scratch"
    /\ ipc = "ret"
    /\ caller' = [caller EXCEPT !.pc = "done", !.from_scratch = run_res]
    /\ ipc' = "idle"
    /\ UNCHANGED program_fragment
    /\ ResumeFrame

\* a run has panicked
S_Abort ==
    /\ caller.pc \in {"parent", "resumed", "scratch"}
    /\ ipc = "panic"
    /\ caller' = [caller EXCEPT !.pc = "aborted"]
    /\ ipc' = "idle"
    /\ UNCHANGED program_fragment
    /\ ResumeFrame

NextResume ==
    \/ S_Extend
    \/ S_FromScratch
    \/ S_Compare
    \/ S_Abort
    \/ Fast_Enter
    \/ Fast_Inc
    \/ Fast_Dec
    \/ Fast_Left
    \/ Fast_Right
    \/ Fast_LoopStart
    \/ Fast_LoopEnd
    \/ Fast_Output
    \/ Fast_Fallback
    \/ Fast_Exit
    \/ Track_Enter

SpecResume == InitResume /\ [][NextResume]_vars

(***************************************************************************)
(* search.rs:77-233: find_program from its first flush on, as it would     *)
(* run once the call at line 66 had returned: the writer made for the      *)
(* starting program's length holds what handle_run_result did with the     *)
(* initial result (lines 70-75), and found_states the key it inserted.     *)
(* Each turn of the loop flushes, makes the writer for the next length     *)
(* and the reader for the current one, extends every seed read as the      *)
(* loop body does, flushes, and returns Err at the maximum program size.   *)
(* The working directory holds the writer's file and, or not, files        *)
(* program_seeds_<m>.bin left by an earlier run.                           *)
(***************************************************************************)
\* search.rs:231  `if current_program_size == 16`, scaled
MaxProgramSize == 2

\* the targets: found at once, found at length 2, not found below the maximum
DriverTargets == {<< >>, <<1>>, <<2>>}

\* the starting programs whose run from the zero tape ends, every loop
\* closed, with output still expected: code, tape, head, output cursor
DriverStarts ==
    {<<<< >>, ZeroTape, 0>>, <<<<"Inc">>, <<1, 0, 0, 0>>, 0>>, <<<<"Right">>, ZeroTape, 1>>,
     <<<<"Inc", "Right">>, <<1, 0, 0, 0>>, 1>>}

\* the records of a file left for length m by an earlier run
DriverLeftoverSeeds(m) ==
    CASE m = 0 -> <<SeedOf(<< >>, ZeroTape, 0, 0, 0), SeedOf(<< >>, ZeroTape, 1, 0, 0)>>
      [] m = 1 -> <<SeedOf(<<"Inc">>, <<1, 0, 0, 0>>, 0, 1, 0),
                    SeedOf(<<"Right">>, ZeroTape, 1, 1, 0)>>
      [] m = 2 -> <<SeedOf(<<"LoopStart", "Right">>, ZeroTape, 1, 2, 0),
                    SeedOf(<<"LoopStart", "Inc">>, <<1, 0, 0, 0>>, 0, 2, 0)>>
      [] OTHER -> << >>

DriverLeftover(m) ==
    usize_to_ne_bytes(m)
        \o flatten([k \in 1..Len(DriverLeftoverSeeds(m)) |-> record_bytes(DriverLeftoverSeeds(m)[k])])

\* the directory with the files left for the lengths of M
LeftIn(M) == [p \in {ReaderPath(m) : m \in M} |-> DriverLeftover(p[2])]

\* search.rs:400-411 when the consumer has ended or was joined before: nothing
\* to join, and the BufWriter's bytes go to the file
flush_joined(w, d) ==
    [head |-> [w EXCEPT !.sender = FALSE, !.handle = FALSE, !.buffer = << >>],
     dir |-> [d EXCEPT ![w.path] = @ \o w.buffer]]

InitDriver ==
    /\ target_output \in DriverTargets
    /\ \E start \in DriverStarts, kept \in BOOLEAN, M \in {{}, {0}, 0..MaxProgramSize} :
          LET seed == SeedOf(start[1], start[2], start[3], Len(start[1]), 0)
              n == Len(start[1])
          IN  /\ kept => target_output # << >>
              /\ current_program_size = n
              /\ current_program_writing_head =
                    [DiskSeedWriter_new(n) EXCEPT !.queue = IF kept THEN <<seed>> ELSE << >>]
              /\ dir = create_truncate(LeftIn(M), WriterPath(n))
              /\ caller = [pc |-> "flush", k |-> 1, program_seed |-> EmptySeed,
                           found_states |->
                               IF kept THEN {found_key(seed.continue_state)} ELSE {},
                           produced |-> << >>, appended |-> << >>,
                           reader |-> NoSeed, parents |-> << >>, after_level |-> FALSE]
    /\ starting_program = << >>
    /\ fpc = "idle"
    /\ starting_code = CompressedBF_new(0, 0)
    /\ paren_count = 0
    /\ jump_table = << >>
    /\ find_res = Running
    /\ program_fragment = EmptySeed
    /\ ipc = "idle"
    /\ InterpIdle

DriverFrame ==
    UNCHANGED <<interp_vars, starting_program, fpc, starting_code, paren_count, jump_table>>

\* lines 77 and 223: flush takes the sender and waits for the consumer
L_FlushBegin ==
    /\ caller.pc = "flush"
    /\ current_program_writing_head' = [current_program_writing_head EXCEPT !.sender = FALSE]
    /\ caller' = [caller EXCEPT !.pc = "joining"]
    /\ UNCHANGED <<dir, current_program_size, find_res>>
    /\ DriverFrame

\* lines 231-233
L_MaximumSize ==
    /\ caller.pc = "flushed"
    /\ caller.after_level
    /\ current_program_size = MaxProgramSize
    /\ find_res' = Err("Reached maximum program size of 16 without finding a solution.")
    /\ caller' = [caller EXCEPT !.pc = "returned"]
    /\ current_program_writing_head' = drop_writer(current_program_writing_head)
    /\ UNCHANGED <<dir, current_program_size>>
    /\ DriverFrame

\* lines 82-86: the second flush, the writer for the next length, the reader
\* for the current one
L_Open ==
    /\ caller.pc = "flushed"
    /\ caller.after_level => current_program_size # MaxProgramSize
    /\ LET again == flush_joined(current_program_writing_head, dir)
           made == DiskSeedReader_new(create_truncate(again.dir, WriterPath(current_program_size + 1)),
                                      current_program_size)
       IN  /\ dir' = create_truncate(again.dir, WriterPath(current_program_size + 1))
           /\ IF made = Panicked
              THEN /\ caller' = [caller EXCEPT !.pc = "panicked"]
                   /\ current_program_writing_head' =
                         drop_writer(DiskSeedWriter_new(current_program_size + 1))
                   /\ UNCHANGED current_program_size
              ELSE /\ caller' = [caller EXCEPT !.pc = "reading", !.reader = made,
                                               !.parents = << >>, !.after_level = FALSE]
                   /\ current_program_writing_head' = DiskSeedWriter_new(current_program_size + 1)
                   /\ current_program_size' = current_program_size + 1
    /\ UNCHANGED find_res
    /\ DriverFrame

\* line 92: read_seed gives the next parent, or None and the loop goes on to
\* the flush of line 223
L_ReadSeed ==
    /\ caller.pc \in {"reading", "next"}
    /\ LET read == read_seed(caller.reader, dir[caller.reader.file])
       IN  caller' = IF read.seed = NoSeed
                     THEN [caller EXCEPT !.pc = "flush", !.reader = read.reader,
                                         !.after_level = TRUE]
                     ELSE [caller EXCEPT !.pc = "extend", !.k = 1, !.reader = read.reader,
                                         !.program_seed = read.seed.value,
                                         !.parents = Append(@, read.seed.value),
                                         !.produced = << >>, !.appended = << >>]
    /\ UNCHANGED <<dir, current_program_writing_head, current_program_size, find_res>>
    /\ DriverFrame

NextDriver ==
    \/ L_FlushBegin
    \/ W_FlushEnd
    \/ L_MaximumSize
    \/ L_Open
    \/ L_ReadSeed
    \/ X_LoopEnd
    \/ X_LoopStart
    \/ X_Output
    \/ X_Left
    \/ X_Right
    \/ X_Inc
    \/ X_Dec
    \/ Fast_Enter
    \/ Fast_Inc
    \/ Fast_Dec
    \/ Fast_Left
    \/ Fast_Right
    \/ Fast_LoopStart
    \/ Fast_LoopEnd
    \/ Fast_Output
    \/ Fast_Fallback
    \/ Fast_Exit
    \/ Track_Enter
    \/ X_Handle
    \/ X_Unwind
    \/ Writer_Consume
    \/ Writer_ThreadExit

SpecDriver == InitDriver /\ [][NextDriver]_vars

(***************************************************************************)
(* search.rs:384-411: a DiskSeedWriter used past its flush.  A caller      *)
(* makes a writer for length n, appends a list of seeds and flushes; then  *)
(* it flushes again, appends a seed more, or lets the writer go out of     *)
(* scope.                                                                  *)
(***************************************************************************)
\* the calls of flush after the first
MaxFlushes == 2

InitFlush ==
    /\ \E n \in 0..MaxFrontierLen :
          caller \in {[pc |-> "start", n |-> n, todo |-> l, sent |-> << >>, late |-> a,
                       flushes |-> 0] :
                         l \in SeqsUpTo(FrontierSeeds(n), MaxSeeds),
                         a \in SeqsUpTo(FrontierSeeds(n) \cup {MismatchSeed(n)}, 1)}
    /\ dir = << >>
    /\ current_program_writing_head = NoWriter
    /\ starting_program = << >>
    /\ fpc = "idle"
    /\ starting_code = CompressedBF_new(0, 0)
    /\ current_program_size = 0
    /\ paren_count = 0
    /\ jump_table = << >>
    /\ find_res = Running
    /\ target_output = << >>
    /\ program_fragment = EmptySeed
    /\ ipc = "idle"
    /\ InterpIdle

\* search.rs:400-411 on a writer flushed before: no sender to take, no handle
\* to join, the BufWriter flushed
W_FlushAgain ==
    /\ caller.pc = "flushed"
    /\ caller.flushes < MaxFlushes
    /\ LET again == flush_joined(current_program_writing_head, dir)
       IN  /\ current_program_writing_head' = again.head
           /\ dir' = again.dir
    /\ caller' = [caller EXCEPT !.flushes = @ + 1]
    /\ FrontierFrame

\* search.rs:384-398 on a writer flushed before
W_AppendLate ==
    /\ caller.pc = "flushed"
    /\ caller.late # << >>
    /\ LET after == DiskSeedWriter_append(current_program_writing_head, Head(caller.late))
       IN  IF after = Panicked
           THEN /\ caller' = [caller EXCEPT !.pc = "append_panicked", !.late = Tail(@)]
                /\ current_program_writing_head' = drop_writer(current_program_writing_head)
           ELSE /\ caller' = [caller EXCEPT !.late = Tail(@)]
                /\ current_program_writing_head' = after
    /\ UNCHANGED dir
    /\ FrontierFrame

\* the writer goes out of scope after its flush: the consumer has ended, so
\* the BufWriter is dropped with the writer and its bytes go to the file
W_Drop ==
    /\ caller.pc = "flushed"
    /\ dir' = [dir EXCEPT ![current_program_writing_head.path] =
                              @ \o current_program_writing_head.buffer]
    /\ current_program_writing_head' =
          [drop_writer(current_program_writing_head) EXCEPT !.buffer = << >>]
    /\ caller' = [caller EXCEPT !.pc = "dropped"]
    /\ FrontierFrame

NextFlush ==
    \/ W_New
    \/ W_Append
    \/ Writer_Consume
    \/ W_FlushBegin
    \/ Writer_ThreadExit
    \/ W_FlushEnd
    \/ W_FlushAgain
    \/ W_AppendLate
    \/ W_Drop

SpecFlush == InitFlush /\ [][NextFlush]_vars

(***************************************************************************)
(* Properties of find_program (Spec).                                      *)
(***************************************************************************)
\* find_program has ended, by a return or by a panic
Ended == fpc \in {"returned", "panicked"}

\* the program of k Inc followed by one Output
IncsThenOutput(k) == [n \in 1..(k + 1) |-> IF n <= k THEN "Inc" ELSE "Output"]

\* C3: for the empty target and the empty starting program the search ends
\* with the empty program as its solution.
C3_EmptyTargetEmptyProgram ==
    (Ended /\ target_output = << >> /\ starting_program = << >>) => find_res = Ok(<< >>)

\* C4: from the empty starting program the search for a one-byte target [k],
\* k in {0, 1, 3}, ends with k Inc followed by one Output.
C4_SingleByteTargets ==
    (Ended /\ starting_program = << >> /\ target_output \in {<<0>>, <<1>>, <<3>>})
        => find_res = Ok(IncsThenOutput(target_output[1]))

(***************************************************************************)
(* Properties of run_program_fragment_without_states (SpecRun).            *)
(***************************************************************************)
resume_output_ind == program_fragment.continue_state.resume_output_ind

resume_pc == program_fragment.continue_state.resume_pc

\* the machine state a return at this moment has to capture
ResumeNow ==
    [program_state |-> [tape |-> tape, tape_head |-> tape_head],
     resume_pc |-> pc,
     resume_output_ind |-> output_ind]

\* C6: when the PC reaches the end of the code the call returns
\* IncompleteLoopSuccess if loops are still open (whatever the output cursor),
\* else Success if the cursor is at the end of the target, else
\* IncompleteOutputSuccess; the resume record holds the tape, head, PC and
\* cursor of that moment.
C6_EndOfCode ==
    [][(ipc = "loop" /\ pc >= code_size) =>
          /\ ipc' = "ret"
          /\ run_res' = IF program_fragment.current_paren_count > 0
                        THEN [tag |-> "IncompleteLoopSuccess", state |-> ResumeNow]
                        ELSE IF output_ind = Len(target_output)
                             THEN [tag |-> "Success"]
                             ELSE [tag |-> "IncompleteOutputSuccess", state |-> ResumeNow]]_vars

\* C6: a run ended with loops open although the whole target was emitted
C6_Witness ==
    /\ ipc = "ret"
    /\ run_res.tag = "IncompleteLoopSuccess"
    /\ run_res.state = ResumeNow
    /\ pc = code_size
    /\ output_ind = Len(target_output)
    /\ Len(emitted) > 0

\* C7: Output returns TargetMismatch when the cursor is at or past the end of
\* the target or the cell differs from the target byte; otherwise the cursor
\* advances by one and tape and head stay.  In every state of a call the cursor
\* is at most the target's length and the bytes emitted are the target's bytes
\* at those positions.
C7_Output ==
    /\ [][Executes("Output") =>
             IF output_ind >= Len(target_output) \/ cell # target_output[output_ind + 1]
             THEN ipc' = "ret" /\ run_res' = [tag |-> "TargetMismatchError"]
             ELSE /\ ipc' = "loop"
                  /\ output_ind' = output_ind + 1
                  /\ tape' = tape
                  /\ tape_head' = tape_head]_vars
    /\ [](ipc # "call" =>
             /\ output_ind <= Len(target_output)
             /\ emitted = SubSeq(target_output, resume_output_ind + 1, output_ind))

\* C7: a run that emitted the two bytes of its target and succeeded
C7_Witness ==
    /\ ipc = "ret"
    /\ run_res = Success
    /\ Len(emitted) = 2
    /\ emitted = target_output

C9_OpenLoopStart ==
    [][(Executes("LoopStart") /\ jump_entry = -2) =>
          IF cell = 0
          THEN ipc' = "ret" /\ run_res' = [tag |-> "NOOPError"]
          ELSE ipc' = "loop" /\ pc' = pc + 1]_vars

\* C9: a run ended with NOOP at an unclosed LoopStart over a zero cell
C9_Witness ==
    /\ ipc = "ret"
    /\ run_res = NOOPError
    /\ get(program_fragment.code, pc) = "LoopStart"
    /\ jump_entry = -2
    /\ cell = 0

\* the instructions of the seed's code, in order
code_vec == to_vec(program_fragment.code)

\* +1 for a LoopStart, -1 for a LoopEnd, 0 otherwise
bracket(instruction) ==
    CASE instruction = "LoopStart" -> 1
      [] instruction = "LoopEnd" -> -1
      [] OTHER -> 0

\* the nesting depth over the instructions v[a + 1 .. b + 1] (0-based a..b)
RECURSIVE depth(_, _, _)
depth(v, a, b) == IF a > b THEN 0 ELSE bracket(v[a + 1]) + depth(v, a + 1, b)

\* the LoopEnd matching the LoopStart at i, by nesting
matching_end(v, i) ==
    CHOOSE j \in (i + 1)..(Len(v) - 1) :
        /\ depth(v, i, j) = 0
        /\ \A k \in i..(j - 1) : depth(v, i, k) > 0

\* the LoopStart matching the LoopEnd at j, by nesting
matching_start(v, j) ==
    CHOOSE i \in 0..(j - 1) :
        /\ depth(v, i, j) = 0
        /\ \A k \in (i + 1)..j : depth(v, k, j) < 0

\* C10: at a matched LoopStart the PC becomes the index past the matching
\* LoopEnd when the cell is zero and advances by one otherwise; at a LoopEnd the
\* PC becomes the index past the matching LoopStart when the cell is non-zero and
\* advances by one otherwise; tape, head and output cursor stay.
C10_Brackets ==
    [][/\ (Executes("LoopStart") /\ jump_entry # -2) =>
            /\ jump_entry = matching_end(code_vec, pc) + 1
            /\ pc' = IF cell = 0 THEN matching_end(code_vec, pc) + 1 ELSE pc + 1
            /\ UNCHANGED <<tape, tape_head, output_ind>>
       /\ Executes("LoopEnd") =>
            /\ jump_entry = matching_start(code_vec, pc) + 1
            /\ pc' = IF cell # 0 THEN matching_start(code_vec, pc) + 1 ELSE pc + 1
            /\ UNCHANGED <<tape, tape_head, output_ind>>]_vars

\* C10: a LoopEnd over a non-zero cell has sent the PC back into its loop
C10_Witness ==
    /\ ipc = "loop"
    /\ resume_pc = 0
    /\ steps = 3
    /\ pc = 1
    /\ get(program_fragment.code, 0) = "LoopStart"
    /\ get(program_fragment.code, 2) = "LoopEnd"
    /\ cell # 0

(***************************************************************************)
(* Properties of the two interpreters on one seed (SpecModes).             *)
(***************************************************************************)
\* the caller has joined the tracking run
TrackingEnded == caller.pc = "fast"

\* C11: in tracking mode InfiniteLoop is returned exactly when the state about
\* to be executed was executed before in the call; `+[]` run from the zero tape
\* returns InfiniteLoop.
C11_PlusEmptyLoop ==
    (TrackingEnded /\ caller.input = <<"+", "[", "]">>) => caller.track_res = InfiniteLoopError

\* C12: for a program that halts on the zero tape within the step cap, tracking
\* mode returns what fast mode returns, and never InfiniteLoop.
C12_ModesAgreeOnHalting ==
    (TrackingEnded /\ ipc = "ret" /\ pc = code_size) =>
        (caller.track_res = run_res /\ caller.track_res # InfiniteLoopError)

input_vec == to_vec(from_string(caller.input))

\* some LoopEnd of v has no open LoopStart before it
HasUnmatchedClose(v) == \E k \in 0..(Len(v) - 1) : depth(v, 0, k) < 0

C16_BracketErrors ==
    caller.pc \in {"seeded", "rejected"} =>
        IF HasUnmatchedClose(input_vec)
        THEN caller.compiled = [tag |-> "Err", message |-> "Loop end without matching loop start."]
        ELSE IF depth(input_vec, 0, Len(input_vec) - 1) > 0
             THEN caller.compiled = [tag |-> "Err", message |-> "Unmatched loop in the input."]
             ELSE caller.compiled.tag = "Ok" /\ caller.pc = "seeded"

\* C16: `][.` was rejected for its LoopEnd although its brackets balance in number
C16_Witness ==
    /\ caller.pc = "rejected"
    /\ caller.input = <<"]", "[", ".">>
    /\ caller.compiled = Err("Loop end without matching loop start.")

(***************************************************************************)
(* Properties of CompressedBF (SpecData).                                  *)
(***************************************************************************)
\* the step is a call of append that returned
AppendStep == caller.pc = "ready" /\ caller'.pc = "ready" /\ caller'.op[1] = "append"

\* the step is a call of set, returned or panicked
SetStep == caller.pc = "ready" /\ caller'.op[1] = "set"

\* C17: the instructions S appended one by one to an empty code are read back
\* by size, get and to_vec, and the display string is the concatenation of
\* their symbols; each append adds one to the size and leaves the earlier
\* elements as they were.
C17_PackRoundTrip ==
    /\ []((caller.pc \in {"ready", "panicked"} /\ caller.plain) =>
             /\ size(caller.bf) = Len(caller.S)
             /\ \A i \in 0..(Len(caller.S) - 1) : get(caller.bf, i) = caller.S[i + 1]
             /\ to_vec(caller.bf) = caller.S
             /\ fmt_CompressedBF(caller.bf) =
                    [k \in 1..Len(caller.S) |-> fmt_BfInstruction(caller.S[k])])
    /\ [][AppendStep =>
             /\ size(caller'.bf) = size(caller.bf) + 1
             /\ get(caller'.bf, size(caller.bf)) = caller'.op[2]
             /\ \A j \in 0..(size(caller.bf) - 1) : get(caller'.bf, j) = get(caller.bf, j)]_vars

\* C17: three instructions were appended to the empty code, filling a byte and
\* starting the next
C17_Witness ==
    /\ caller.pc = "ready"
    /\ caller.plain
    /\ caller.S = <<"Output", "LoopEnd", "Dec">>
    /\ to_vec(caller.bf) = caller.S
    /\ fmt_CompressedBF(caller.bf) = <<".", "]", "-">>

\* C18: get returns None and set panics exactly when the index is at or past
\* the size, also when the index is inside the allocated capacity; new panics
\* when the capacity is below the size.
C18_BoundsBySize ==
    /\ [](caller.pc = "ready" =>
             \A i \in 0..MaxIndex : (get(caller.bf, i) = None) <=> (i >= size(caller.bf)))
    /\ [][SetStep => ((caller'.pc = "panicked") <=> (caller'.op[2] >= size(caller.bf)))]_vars
    /\ [][caller.pc = "new" =>
             ((caller'.pc = "panicked") <=> (caller.origin[2] < caller.origin[1]))]_vars

\* C18: after new(1, 3) a set at index 1, inside the two allocated bytes, panicked
C18_Witness ==
    /\ caller.pc = "panicked"
    /\ caller.origin = <<1, 3>>
    /\ caller.op = <<"set", 1, "Output">>
    /\ 1 < 2 * Len(caller.bf.data)
    /\ get(caller.bf, 1) = None

\* C19: set(i, v) with i below the size makes get(i) = v and leaves get(j) for
\* every other j, the other index of the same byte included.
C19_SetFrame ==
    [][(SetStep /\ caller'.pc = "ready") =>
          /\ get(caller'.bf, caller'.op[2]) = caller'.op[3]
          /\ size(caller'.bf) = size(caller.bf)
          /\ \A j \in 0..MaxIndex :
                j # caller'.op[2] => get(caller'.bf, j) = get(caller.bf, j)]_vars

\* C19: the low nibble of a byte was set while its high nibble held another
\* instruction
C19_Witness ==
    /\ caller.pc = "ready"
    /\ caller.op = <<"set", 0, "Output">>
    /\ get(caller.bf, 0) = "Output"
    /\ get(caller.bf, 1) = "LoopEnd"

(***************************************************************************)
(* Properties of the frontier files (SpecFrontier).                        *)
(***************************************************************************)
\* two seeds equal on code, jump table, tape, head, resume PC, output cursor
\* and count of open loops
same_seed(a, b) ==
    /\ to_vec(a.code) = to_vec(b.code)
    /\ a.jump_table = b.jump_table
    /\ a.continue_state = b.continue_state
    /\ a.current_paren_count = b.current_paren_count

\* C20: the seeds appended to a DiskSeedWriter for length n and flushed are what
\* a DiskSeedReader for length n yields, in the same order, followed by the end
\* of the stream.
C20_FrontierRoundTrip ==
    caller.pc \in {"eof", "panicked"} =>
        /\ caller.pc = "eof"
        /\ Len(caller.got) = Len(caller.sent) + 1
        /\ caller.got[Len(caller.got)] = NoSeed
        /\ \A k \in 1..Len(caller.sent) :
              /\ caller.got[k].tag = "Some"
              /\ same_seed(caller.got[k].value, caller.sent[k])

\* DiskSeedReader::new has acted: it made a reader or panicked
ReaderMade == caller.pc \in {"reading", "eof", "panicked"}

\* C21: the DiskSeedReader for length n opens the file the DiskSeedWriter for
\* length n (same tape width) writes, program_<W>_seeds_<n>.bin.
C21_ReaderOpensWriterFile ==
    ReaderMade =>
        /\ caller.pc # "panicked"
        /\ caller.reader.file = WriterPath(caller.n)
        /\ caller.reader.file = current_program_writing_head.path

\* the length in the header of the file the reader has open
header_size == usize_from_ne_bytes(SubSeq(dir[caller.reader.file], 1, WORD_BYTES))

\* C22: DiskSeedReader::new(n) fails when the length stored in the file's header
\* is not n, so no reader is made on such a file and no seed is read from it.
C22_HeaderValidated ==
    caller.pc \in {"reading", "eof"} =>
        /\ header_size = caller.n
        /\ caller.reader.program_size = caller.n

\* the caller takes a step of append
AppendCall == caller.pc = "appending" /\ caller' # caller /\ caller'.pc # "joining"

\* the seed append is called with
appended_seed == Head(caller.todo)

\* every seed on the writer's channel is of the writer's length
QueueOfWriterSize ==
    current_program_writing_head # NoWriter =>
        \A k \in 1..Len(current_program_writing_head.queue) :
            size(current_program_writing_head.queue[k].code) =
                current_program_writing_head.program_size

FlushReturned == caller.pc \in {"flushed", "reading", "eof", "panicked"}

\* the records of the seeds append accepted, in the order of the calls
sent_records == flatten([k \in 1..Len(caller.sent) |-> record_bytes(caller.sent[k])])

\* once flush has returned, the writer's file is the header and then the
\* records of the seeds appended, one each, in the order of the appends
FileHoldsSent ==
    FlushReturned =>
        dir[current_program_writing_head.path] =
            usize_to_ne_bytes(current_program_writing_head.program_size) \o sent_records

\* C24: whatever the interleaving of the appending caller and the consumer
\* thread, once flush has returned the file holds the header followed by the
\* records of exactly the seeds appended before it, in the order of the appends;
\* and a flush that was called returns.
C24_WriterFifo ==
    /\ []FileHoldsSent
    /\ (caller.pc = "joining") ~> (caller.pc = "flushed")

\* C24 witness: flush has returned after two different seeds were appended, the
\* file holding the header and both records
C24_Witness ==
    /\ caller.pc = "flushed"
    /\ Len(caller.sent) = 2
    /\ caller.sent[1] # caller.sent[2]
    /\ Len(dir[current_program_writing_head.path]) =
          WORD_BYTES + Len(record_bytes(caller.sent[1])) + Len(record_bytes(caller.sent[2]))

(***************************************************************************)
(* Properties of the extension of a parent seed (SpecExtend).              *)
(***************************************************************************)
\* the instruction of the branch the caller is at
branch_instruction ==
    <<"LoopEnd", "LoopStart", "Output", "Left", "Right", "Inc", "Dec">>[caller.k]

\* the caller takes the step of a branch
BranchStep == caller.pc = "extend" /\ caller' # caller

\* the rule of the children: which instruction may follow a parent
permitted(instruction, parent) ==
    LET v == to_vec(parent.code)
        last == IF v = << >> THEN None ELSE v[Len(v)]
    IN  CASE instruction = "LoopEnd" ->
                parent.current_paren_count > 0 /\ last # "LoopStart"
          [] instruction \in {"LoopStart", "Output"} -> TRUE
          [] instruction = "Left" -> last # "Right"
          [] instruction = "Right" -> last # "Left"
          [] instruction = "Inc" -> last # "Dec"
          [] instruction = "Dec" -> last # "Inc"
          [] OTHER -> FALSE

\* C25: a child by LoopEnd is made only of a parent with a loop open that does
\* not end in LoopStart; by LoopStart and by Output always; by Left only when
\* the parent does not end in Right, by Right only when not in Left, by Inc
\* only when not in Dec, by Dec only when not in Inc; never by Input; and of
\* the empty parent the six children other than LoopEnd are made.
C25_ExtensionGating ==
    /\ [][BranchStep =>
            /\ (caller'.pc = "running") <=> permitted(branch_instruction, caller.program_seed)
            /\ caller'.pc = "running" =>
                  /\ to_vec(program_fragment'.code) =
                        Append(to_vec(caller.program_seed.code), branch_instruction)
                  /\ caller'.produced = Append(caller.produced, branch_instruction)
            /\ caller'.pc # "running" =>
                  /\ caller'.produced = caller.produced
                  /\ program_fragment' = program_fragment]_vars
    /\ [](\A k \in 1..Len(caller.produced) : caller.produced[k] # "Input")
    /\ [](caller.pc = "next" /\ size(caller.program_seed.code) = 0 =>
            caller.produced = <<"LoopStart", "Output", "Left", "Right", "Inc", "Dec">>)

\* C25 witness: all branches were gone through for the empty parent and its six
\* children were made
C25_Witness ==
    /\ caller.pc = "next"
    /\ size(caller.program_seed.code) = 0
    /\ Len(caller.produced) = 6

\* the caller takes the step of handle_run_result
HandleStep == caller.pc = "running" /\ ipc = "ret" /\ caller' # caller

\* the child with the resume state of the result
resumed_child == [program_fragment EXCEPT !.continue_state = run_res.state]

\* the writer's channel and found_states are as before the step
NothingKept ==
    /\ current_program_writing_head'.queue = current_program_writing_head.queue
    /\ caller'.found_states = caller.found_states

\* C26: handle_run_result returns the child's code on Success; on
\* IncompleteLoopSuccess it appends the child with the returned resume state
\* and leaves found_states alone; on IncompleteOutputSuccess it appends the
\* child and inserts (tape, head, cursor) into found_states when that triple is
\* not in it, and otherwise drops the child; on every error it appends nothing
\* and leaves found_states alone.
C26_HandleRunResult ==
    [][HandleStep =>
        CASE run_res.tag = "Success" ->
                /\ find_res' = Ok(to_vec(program_fragment.code))
                /\ caller'.pc = "returned"
                /\ NothingKept
          [] run_res.tag = "IncompleteLoopSuccess" ->
                /\ current_program_writing_head'.queue =
                      Append(current_program_writing_head.queue, resumed_child)
                /\ caller'.found_states = caller.found_states
                /\ find_res' = find_res
          [] run_res.tag = "IncompleteOutputSuccess" ->
                /\ find_res' = find_res
                /\ IF <<run_res.state.program_state.tape,
                        run_res.state.program_state.tape_head,
                        run_res.state.resume_output_ind>>
                      \in {<<f[1].tape, f[1].tape_head, f[2]>> : f \in caller.found_states}
                   THEN NothingKept
                   ELSE /\ current_program_writing_head'.queue =
                              Append(current_program_writing_head.queue, resumed_child)
                        /\ caller'.found_states =
                              caller.found_states
                                \cup {<<run_res.state.program_state,
                                        run_res.state.resume_output_ind>>}
          [] OTHER ->
                /\ find_res' = find_res
                /\ NothingKept]_vars

\* C26 witness: a child whose run ended in IncompleteOutputSuccess on a triple
\* already in found_states was dropped
C26_Witness ==
    /\ caller.pc \in {"extend", "next"}
    /\ ipc = "idle"
    /\ run_res.tag = "IncompleteOutputSuccess"
    /\ found_key(run_res.state) \in caller.found_states
    /\ Len(caller.appended) = Len(caller.produced)
    /\ caller.appended # << >>
    /\ ~caller.appended[Len(caller.appended)]

(***************************************************************************)
(* Further properties of find_program (Spec).                              *)
(***************************************************************************)
\* the instructions of the starting program
start_vec == to_vec(from_string(starting_program))

\* the number of `instruction` among the first k instructions of v
count_of(v, instruction, k) == Cardinality({i \in 1..k : v[i] = instruction})

\* every LoopEnd of v closes a LoopStart before it and no LoopStart stays open
WellParenthesised(v) ==
    /\ \A k \in 0..Len(v) : count_of(v, "LoopEnd", k) <= count_of(v, "LoopStart", k)
    /\ count_of(v, "LoopEnd", Len(v)) = count_of(v, "LoopStart", Len(v))

\* C27: find_program, called with a well-parenthesised starting program, ends
\* by returning, either the solution or the failure of the maximum program
\* size.
C27_DriverReturns ==
    (Ended /\ WellParenthesised(start_vec)) =>
        /\ fpc = "returned"
        /\ \/ find_res.tag = "Ok"
           \/ find_res = Err("Reached maximum program size of 16 without finding a solution.")

\* the seed find_program builds of its starting program
initial_seed_built ==
    /\ to_vec(program_fragment.code) = start_vec
    /\ program_fragment.current_paren_count = 0
    /\ program_fragment.continue_state = ContinueState(ZeroTape, 0, 0, 0)

\* C28: for a starting program that is not well-parenthesised find_program
\* returns an error without calling the interpreter and without sending any
\* seed to the writer; a well-parenthesised one becomes the one initial seed,
\* given to the interpreter with the all-zero tape, head 0, PC 0 and output
\* cursor 0.
C28_StartingProgram ==
    /\ ~WellParenthesised(start_vec) =>
          /\ ipc = "idle"
          /\ fpc \notin {"run_initial", "initial_running", "panicked"}
          /\ fpc = "returned" => find_res.tag = "Err"
          /\ current_program_writing_head # NoWriter =>
                /\ current_program_writing_head.queue = << >>
                /\ current_program_writing_head.buffer \in
                      {<< >>, usize_to_ne_bytes(current_program_size)}
    /\ WellParenthesised(start_vec) =>
          /\ fpc # "returned"
          /\ fpc \in {"initial_running", "panicked"} =>
                /\ ipc # "idle"
                /\ initial_seed_built

\* C28 witness: the starting program "][", with as many LoopStart as LoopEnd,
\* was refused
C28_Witness ==
    /\ start_vec = <<"LoopEnd", "LoopStart">>
    /\ fpc = "returned"
    /\ find_res.tag = "Err"

(***************************************************************************)
(* Further properties of the frontier files (SpecFrontier).                *)
(***************************************************************************)
\* the bytes of the record of a seed of n instructions
record_len(n) == n + n * WORD_BYTES + MAX_TAPE_SIZE + 1 + 3 * WORD_BYTES

\* the content is a header and whole records of n instructions, each
\* instruction byte an instruction
whole_records(content, n) ==
    /\ Len(content) >= WORD_BYTES
    /\ (Len(content) - WORD_BYTES) % record_len(n) = 0
    /\ \A r \in 0..((Len(content) - WORD_BYTES) \div record_len(n) - 1) :
          \A k \in 1..n : from_u8(content[WORD_BYTES + r * record_len(n) + k]) # None

\* C29: a record cut short or holding an invalid instruction byte is a fatal
\* error of the reader; read_seed reports the end of the frontier only at the
\* end of a file of whole, valid records.
C29_ReadErrorsFatal ==
    caller.pc = "eof" =>
        whole_records(dir[caller.reader.file], caller.reader.program_size)

(***************************************************************************)
(* Further properties of run_program_fragment_without_states (SpecRun).    *)
(***************************************************************************)
\* the tape the run resumed from
resume_tape == program_fragment.continue_state.program_state.tape

\* the first two instructions the run executes
first_two == <<get(program_fragment.code, resume_pc), get(program_fragment.code, resume_pc + 1)>>

\* C30: Inc on a cell of 255 gives 0 and Dec on a cell of 0 gives 255, neither
\* an error; only the cell under the head changes; Inc followed by Dec, or Dec
\* followed by Inc, leaves the tape as it was.
C30_WrappingCells ==
    /\ [][/\ Executes("Inc") =>
                /\ ipc' = "loop"
                /\ tape' = [tape EXCEPT ![tape_head + 1] = IF cell = 255 THEN 0 ELSE cell + 1]
                /\ tape_head' = tape_head
          /\ Executes("Dec") =>
                /\ ipc' = "loop"
                /\ tape' = [tape EXCEPT ![tape_head + 1] = IF cell = 0 THEN 255 ELSE cell - 1]
                /\ tape_head' = tape_head]_vars
    /\ []((ipc = "loop" /\ steps = 2 /\ first_two \in {<<"Inc", "Dec">>, <<"Dec", "Inc">>})
             => tape = resume_tape)

\* C30 witness: Inc has taken a cell of 255 to 0
C30_Witness ==
    /\ ipc = "loop"
    /\ steps = 1
    /\ first_two[1] = "Inc"
    /\ resume_tape[tape_head + 1] = 255
    /\ cell = 0

(***************************************************************************)
(* Properties of get_state_tracker (SpecModes).                            *)
(***************************************************************************)
\* the scratch vectors GLOBAL holds for the tape width, by thread
scratch_of(global) ==
    IF MAX_TAPE_SIZE \in DOMAIN global.map THEN global.map[MAX_TAPE_SIZE].threads ELSE << >>

\* C31: get_state_tracker returns to the calling thread that thread's own
\* scratch, made at its first call and kept for the later ones, and leaves the
\* scratch of every other thread as it is.
C31_PerThreadScratch ==
    [][(ipc = "tcall" /\ ipc' # ipc) =>
          /\ ipc' = "tloop"
          /\ "main" \in DOMAIN scratch_of(GLOBAL')
          /\ \A t \in DOMAIN scratch_of(GLOBAL) : scratch_of(GLOBAL')[t] = scratch_of(GLOBAL)[t]]_vars

(***************************************************************************)
(* Properties of the seeds the loop body builds (SpecExtend).              *)
(***************************************************************************)
\* the jump table the single pass of preprocess_input builds for a code
single_pass(code) == jump_table_pass(code, 0, << >>, 0)

\* a child was built and is being run or was just run
ChildBuilt == caller.pc = "running"

\* C34: the jump table of every child the loop body builds is the table the
\* single pass builds for the child's whole code; a child by LoopEnd has the
\* parent's table with the rightmost -2 set to the new code length and the
\* index of that opener plus one pushed.
C34_IncrementalJumpTable ==
    ChildBuilt =>
        /\ single_pass(program_fragment.code).err = None
        /\ program_fragment.jump_table = single_pass(program_fragment.code).jump_table
        /\ caller.produced[Len(caller.produced)] = "LoopEnd" =>
              LET parent_table == caller.program_seed.jump_table
                  opener == CHOOSE i \in 1..Len(parent_table) :
                                /\ parent_table[i] = -2
                                /\ \A j \in (i + 1)..Len(parent_table) : parent_table[j] # -2
              IN  program_fragment.jump_table =
                      Append([parent_table EXCEPT ![opener] = size(program_fragment.code)],
                             opener)

\* C34 witness: a parent with two loops open was extended by LoopEnd
C34_Witness ==
    /\ ChildBuilt
    /\ to_vec(caller.program_seed.code) = <<"LoopStart", "LoopStart", "Inc">>
    /\ caller.produced = <<"LoopEnd">>
    /\ program_fragment.jump_table = <<-2, 4, -1, 2>>

\* a seed's jump table is as long as its code, and its count of open loops is
\* the number of -2 in the table and the LoopStart less the LoopEnd of the code
well_formed_seed(seed) ==
    LET v == to_vec(seed.code)
        opens == Cardinality({i \in 1..Len(v) : v[i] = "LoopStart"})
        closes == Cardinality({i \in 1..Len(v) : v[i] = "LoopEnd"})
        pending == Cardinality({i \in 1..Len(seed.jump_table) : seed.jump_table[i] = -2})
    IN  /\ Len(seed.jump_table) = size(seed.code)
        /\ seed.current_paren_count = pending
        /\ seed.current_paren_count = opens - closes
        /\ seed.current_paren_count >= 0

ResumeAgreesWithinCap ==
    caller.pc = "done" =>
        /\ caller.from_scratch = caller.from_resume
        /\ kept_result(caller.from_resume) =>
              caller.from_resume.state.resume_pc = size(program_fragment.code)

(***************************************************************************)
(* Properties of the calls' ends (SpecModes, Spec).                        *)
(***************************************************************************)
\* C37: a call of run_program_fragment ends by returning an outcome, so that a
\* call of run_program_fragment_without_states, which hands over to it past
\* the step cap, ends by returning too.
C37_TrackingReturns ==
    /\ TrackingEnded => caller.track_res # Aborted
    /\ caller.pc = "fast" => ipc \in {"call", "loop", "tcall", "tloop", "ret"}

\* C38: on a seed where run_program_fragment_without_states returns an outcome
\* without passing the step cap, a TargetMismatch met inside a loop included,
\* run_program_fragment returns the same outcome.
C38_ModesAgree ==
    (TrackingEnded /\ ipc = "ret" /\ steps <= MAX_STEPS) => caller.track_res = run_res

\* C39: no call made by find_program aborts: get_state_tracker hands out the
\* scratch, the interpreter returns an outcome, and find_program is never
\* unwound by a panic.
C39_NoFatalPath ==
    /\ ipc # "panic"
    /\ fpc # "panicked"
    /\ find_res # Aborted

(***************************************************************************)
(* Properties of the loop of find_program (SpecDriver).                    *)
(***************************************************************************)
\* the seeds read_seed yields from a reader on, up to its first None
RECURSIVE read_all(_, _)
read_all(reader, content) ==
    LET read == read_seed(reader, content)
    IN  IF read.seed = NoSeed
        THEN << >>
        ELSE <<read.seed.value>> \o read_all(read.reader, content)

\* the seeds a file holds under its header
seeds_in(content) ==
    IF Len(content) < WORD_BYTES
    THEN << >>
    ELSE read_all([file |-> << >>, pos |-> WORD_BYTES,
                   program_size |-> usize_from_ne_bytes(SubSeq(content, 1, WORD_BYTES))],
                  content)

\* the seeds the writer for length n was given, in the order of its file
emitted_at(n) == seeds_in(dir[WriterPath(n)])

\* the parents of a length have all been read
LevelRead == caller.pc = "flush" /\ caller.after_level

given_bytes(m) ==
    dir[WriterPath(m)]
        \o (IF current_program_writing_head.path = WriterPath(m)
            THEN current_program_writing_head.buffer
                    \o flatten([k \in 1..Len(current_program_writing_head.queue) |->
                                   record_bytes(current_program_writing_head.queue[k])])
            ELSE << >>)

\* the seeds persisted so far, length by length
RECURSIVE persisted_from(_)
persisted_from(m) ==
    IF m > MaxProgramSize + 1
    THEN << >>
    ELSE (IF WriterPath(m) \in DOMAIN dir THEN seeds_in(given_bytes(m)) ELSE << >>)
            \o persisted_from(m + 1)

\* those of them with no loop open
persisted_closed == SelectSeq(persisted_from(0), LAMBDA seed : seed.current_paren_count = 0)

\* C36: no two persisted seeds with no loop open have the same tape, head and
\* output cursor; found_states holds the keys of exactly those seeds, the
\* initial seed's included, and a key once in it stays in it.
C36_DedupUniqueness ==
    /\ [](/\ \A i, j \in 1..Len(persisted_closed) :
                i # j => found_key(persisted_closed[i].continue_state)
                            # found_key(persisted_closed[j].continue_state)
          /\ caller.found_states =
                {found_key(persisted_closed[i].continue_state) : i \in 1..Len(persisted_closed)})
    /\ [][caller.found_states \subseteq caller'.found_states]_vars

\* a child ended with output still expected in a state found before and was
\* not persisted, two seeds with no loop open being persisted already
C36_Witness ==
    /\ caller.pc \in {"extend", "next"}
    /\ run_res.tag = "IncompleteOutputSuccess"
    /\ caller.appended # << >>
    /\ ~caller.appended[Len(caller.appended)]
    /\ Len(persisted_closed) >= 2

(***************************************************************************)
(* Properties of a DiskSeedWriter past its flush (SpecFlush).              *)
(***************************************************************************)
\* the caller calls flush on the writer flushed before
FlushAgainStep == caller.pc = "flushed" /\ caller'.flushes # caller.flushes

\* the caller calls append on the writer flushed before
AppendLateStep == caller.pc = "flushed" /\ caller'.late # caller.late

\* C40: a flush after the first returns and leaves the file as it is; an
\* append after the flush, of a seed of the writer's length, returns without a
\* panic and its seed is never written: the file stays the header and the
\* records of the seeds appended before the flush.
C40_FlushIdempotent ==
    /\ [][/\ FlushAgainStep =>
                /\ caller'.pc = "flushed"
                /\ dir' = dir
                /\ current_program_writing_head' = current_program_writing_head
          /\ AppendLateStep =>
                /\ dir' = dir
                /\ IF size(Head(caller.late).code) = caller.n
                   THEN /\ caller'.pc = "flushed"
                        /\ current_program_writing_head' = current_program_writing_head
                   ELSE caller'.pc = "append_panicked"]_vars
    /\ [](caller.pc \in {"flushed", "dropped", "append_panicked"} =>
             dir[WriterPath(caller.n)] = usize_to_ne_bytes(caller.n) \o sent_records)

\* C40 witness: the writer was flushed twice more and given a seed of its
\* length after the flush, and has gone out of scope with a seed in its file
C40_Witness ==
    /\ caller.pc = "dropped"
    /\ caller.flushes = MaxFlushes
    /\ caller.late = << >>
    /\ caller.sent # << >>
    /\ current_program_writing_head.thread = "done"

\* in the loop of find_program (SpecDriver) handle_run_result is called, and
\* so append, only between the making of a writer and its flush
DriverAppendsBeforeFlush ==
    caller.pc \in {"reading", "extend", "running", "next"} =>
        /\ current_program_writing_head.sender
        /\ current_program_writing_head.handle

============================================================================
